---- MODULE Spec2Model ----
(***************************************************************************)
(* Trade-simulation ledgers of the stone repository:                       *)
(*   - BacktestEngine._execute_single_trade (src/backtest/backtest_engine) *)
(*   - PositionManager.buy_stock / sell_stock (src/utils/position_manager) *)
(*                                                                         *)
(* Money, prices and rates are Python floats in the source.  They are      *)
(* modelled as exact rationals [n |-> numerator, d |-> denominator] in     *)
(* yuan, always in lowest terms with d > 0, so that every formula of the   *)
(* source is evaluated as written (floating-point rounding is not          *)
(* modelled).  Share counts are integers.                                  *)
(***************************************************************************)
EXTENDS Integers, Sequences, FiniteSets, TLC

(***************************************************************************)
(* Exact rational arithmetic                                               *)
(***************************************************************************)
Abs(x) == IF x < 0 THEN -x ELSE x

RECURSIVE GCD(_, _)
GCD(a, b) == IF b = 0 THEN a ELSE GCD(b, a % b)

LCM(a, b) == (a \div GCD(a, b)) * b

\* n/d in lowest terms, d > 0
Rat(n, d) ==
    LET g == GCD(Abs(n), Abs(d))
        s == IF d < 0 THEN -1 ELSE 1
    IN  [n |-> s * (n \div g), d |-> s * (d \div g)]

RInt(i) == [n |-> i, d |-> 1]

RZero == RInt(0)

RNeg(x) == [n |-> -x.n, d |-> x.d]

RAdd(x, y) ==
    LET l == LCM(x.d, y.d)
    IN  Rat(x.n * (l \div x.d) + y.n * (l \div y.d), l)

RSub(x, y) == RAdd(x, RNeg(y))

\* cross-reduced before multiplying, so that intermediate products stay small
RMul(x, y) ==
    LET g1 == GCD(Abs(x.n), y.d)
        g2 == GCD(Abs(y.n), x.d)
    IN  Rat((x.n \div g1) * (y.n \div g2), (x.d \div g2) * (y.d \div g1))

\* x / y for y # 0
RDiv(x, y) == RMul(x, Rat(y.d, y.n))

\* whole parts first, then the fractional parts over a common denominator, so
\* that the products stay small
RLe(x, y) ==
    LET fx == x.n \div x.d
        fy == y.n \div y.d
        l == LCM(x.d, y.d)
    IN  IF fx # fy THEN fx < fy
        ELSE (x.n % x.d) * (l \div x.d) <= (y.n % y.d) * (l \div y.d)

RLt(x, y) == ~RLe(y, x)

RGt(x, y) == RLt(y, x)

RGe(x, y) == RLe(y, x)

\* Python int(x) on a float: truncation toward zero
RTrunc(x) == IF x.n >= 0 THEN x.n \div x.d ELSE -((-x.n) \div x.d)

Min(a, b) == IF a <= b THEN a ELSE b

(***************************************************************************)
(* BacktestEngine configuration (constructor defaults)                     *)
(***************************************************************************)
commission_rate == Rat(3, 10000)

stamp_tax_rate == Rat(1, 1000)

min_trade_unit == 100

\* available_amount = current_capital * 0.95
CashKeepFactor == Rat(95, 100)

(***************************************************************************)
(* Bounds and input domains                                                *)
(***************************************************************************)
\* number of signals handed to one engine / calls made on one manager
MaxSteps == 3

Symbols == {"A", "B"}

SignalTypes == {"buy", "sell"}

Prices == {RInt(10), RInt(11)}

\* requested quantities: 0 ("let the engine decide"), an odd lot, round lots,
\* and an order larger than any capital below can pay for
Quantities == {0, 50, 1000, 10000}

\* initial_capital values the engine / manager is constructed with
InitialCapitals == {RInt(1000), RInt(100000)}

\* share counts buy_stock / sell_stock are called with
ShareCounts == {0, 50, 1000}

\* combined_strength of the signals handed to the live engine
Strengths == {Rat(1, 2), RInt(1)}

\* signal_strength of sized buys on a directly driven manager: the weakest
\* BUY the combiner lets through, and the strongest
QueryStrengths == {Rat(1, 10), RInt(1)}

\* initial_capital of a manager whose queries are called directly: after one
\* 50-share purchase at 10 the invested fraction is 0.9001 (556) or 0.8929
\* (560.5)
QueryCapitals == {RInt(556), Rat(1121, 2)}

\* prices handed to check_risk_control: -8.5% and +20% of an average cost of
\* 10, -16.8% and +9.1% of an average cost of 11
RiskPrices == {Rat(915, 100), RInt(12)}

\* initial_capital of the manager owned by the live engine
LiveCapitals == {RInt(10000)}

\* prices seen by the live loop
LivePrices == {RInt(9), RInt(10), RInt(12)}

\* price maps {symbol: price} over a set of prices; a symbol may be missing
PriceMaps(prices) == UNION {[S -> prices] : S \in SUBSET Symbols}

\* buy and sell signals, and per symbol one signal of type 'hold'
Signals ==
    [symbol : Symbols, signal_type : SignalTypes, price : Prices,
     quantity : Quantities]
    \cup [symbol : Symbols, signal_type : {"hold"}, price : {RInt(10)},
          quantity : {0}]

VARIABLES
    component,        \* which ledger object this run exercises
    initial_capital,  \* BacktestEngine.initial_capital / PositionManager.initial_capital
    current_capital,  \* BacktestEngine.current_capital
    positions,        \* BacktestEngine.positions: symbol -> position record
    trades,           \* BacktestEngine.trades: the trade log
    request,          \* the signal / call arguments last handed to the ledger
    outcome,          \* path the last call took (what the code logs / returns)
    steps,            \* signals executed / calls made so far
    cash,             \* PositionManager.cash
    pm_positions,     \* PositionManager.positions: symbol -> Position
    result,           \* value returned by the last query / combiner call
    risk_actions,     \* _risk_control: actions of check_risk_control not yet executed
    current_prices,   \* _risk_control: the price map of the running iteration
    stored_weights,   \* MultiStrategy.strategies / StrategyManager.strategy_weights
    run,              \* the run_backtest call in progress, or the last one
    reports,          \* the arguments and the report of every finished run
    is_running,       \* RealSimulationEngine.is_running
    trading_thread,   \* RealSimulationEngine.trading_thread: index in threads, 0 for None
    threads,          \* every trading-loop thread started so far: where it stands
    caller,           \* where the thread calling start_simulation / stop_simulation stands
    writer,           \* the buy_stock / sell_stock call the trading loop is inside
    reader            \* the get_portfolio_status call another thread is inside

vars ==
    <<component, initial_capital, current_capital, positions, trades, request,
      outcome, steps, cash, pm_positions, result, risk_actions, current_prices,
      stored_weights, run, reports, is_running, trading_thread, threads,
      caller, writer, reader>>

bt_vars == <<current_capital, positions, trades>>

pm_vars == <<cash, pm_positions>>

sim_vars == <<result, risk_actions, current_prices>>

\* the state of the objects the ledgers and the one-call combiners leave alone
ext_vars ==
    <<stored_weights, run, reports, is_running, trading_thread, threads, caller,
      writer, reader>>

read_vars == <<writer, reader>>

thread_vars == <<is_running, trading_thread, threads, caller>>

\* no query has returned yet / the last call was not a query
NoResult == [of |-> "none"]

\* the value a query returned
Returned(name, value) == [of |-> name, value |-> value]

(***************************************************************************)
(* BacktestEngine._execute_single_trade                                    *)
(* The record fields timestamp and reason are copies of the signal's and   *)
(* are left out of the signal and of the trade record.                     *)
(***************************************************************************)
EmptyPosition == [quantity |-> 0, avg_price |-> RZero, total_cost |-> RZero]

\* "if symbol not in self.positions: self.positions[symbol] = {...}"
WithPosition(pos, symbol) ==
    IF symbol \in DOMAIN pos THEN pos ELSE (symbol :> EmptyPosition) @@ pos

TradeAmount(price, quantity) == RMul(price, RInt(quantity))

Commission(trade_amount) == RMul(trade_amount, commission_rate)

StampTax(trade_amount) == RMul(trade_amount, stamp_tax_rate)

BuyTotalCost(trade_amount) == RAdd(trade_amount, Commission(trade_amount))

\* "if total_cost > self.current_capital"
InsufficientFunds(total_cost, capital) == RGt(total_cost, capital)

\* mutant: the adjusted quantity is rounded up to the next lot
AdjustedQuantity_RoundUp(capital, price) ==
    LET available_amount == RMul(capital, CashKeepFactor)
        raw == RTrunc(RDiv(available_amount,
                           RMul(price, RAdd(RInt(1), commission_rate))))
    IN  ((raw + min_trade_unit - 1) \div min_trade_unit) * min_trade_unit

\* mutant: the whole cash is spent, no 5% is kept back
AdjustedQuantity_NoReserve(capital, price) ==
    LET raw == RTrunc(RDiv(capital,
                           RMul(price, RAdd(RInt(1), commission_rate))))
    IN  (raw \div min_trade_unit) * min_trade_unit

\* int(available_amount / (price * (1 + commission_rate))), then rounded
\* down to a multiple of min_trade_unit
AdjustedQuantity(capital, price) ==
    LET available_amount == RMul(capital, CashKeepFactor)
        raw == RTrunc(RDiv(available_amount,
                           RMul(price, RAdd(RInt(1), commission_rate))))
    IN  (raw \div min_trade_unit) * min_trade_unit

\* mutant: a buy into a held position keeps the old average price
BuyPosition_StaleAverage(position, quantity, trade_amount) ==
    LET new_quantity == position.quantity + quantity
        new_total_cost == RAdd(position.total_cost, trade_amount)
    IN  [quantity |-> new_quantity,
         total_cost |-> new_total_cost,
         avg_price |-> IF position.quantity > 0 THEN position.avg_price
                       ELSE RDiv(new_total_cost, RInt(new_quantity))]

\* the position after the three assignments of the buy branch
BuyPosition(position, quantity, trade_amount) ==
    LET new_quantity == position.quantity + quantity
        new_total_cost == RAdd(position.total_cost, trade_amount)
    IN  [quantity |-> new_quantity,
         total_cost |-> new_total_cost,
         avg_price |-> RDiv(new_total_cost, RInt(new_quantity))]

BuyRecord(symbol, quantity, price, capital_after) ==
    LET trade_amount == TradeAmount(price, quantity)
    IN  [action |-> "buy", symbol |-> symbol, quantity |-> quantity,
         price |-> price, amount |-> trade_amount,
         commission |-> Commission(trade_amount),
         total_cost |-> BuyTotalCost(trade_amount),
         capital_after |-> capital_after]

\* mutant: only a negative adjusted quantity is dropped
BelowOneLot_NegativeOnly(adjusted_quantity) == adjusted_quantity < 0

\* "if adjusted_quantity < self.min_trade_unit: return"
BelowOneLot(adjusted_quantity) == adjusted_quantity < min_trade_unit

\* mutant: the cash is reduced by the trade amount only, not the commission
CapitalAfterBuy_NoCommission(capital, total_cost) ==
    RSub(capital, RDiv(total_cost, RAdd(RInt(1), commission_rate)))

\* "self.current_capital -= total_cost"
CapitalAfterBuy(capital, total_cost) == RSub(capital, total_cost)

ExecuteBuy(signal) ==
    LET symbol == signal.symbol
        pos0 == WithPosition(positions, symbol)
        position == pos0[symbol]
        short == InsufficientFunds(
                     BuyTotalCost(TradeAmount(signal.price, signal.quantity)),
                     current_capital)
        adjusted_quantity == AdjustedQuantity(current_capital, signal.price)
        quantity == IF short THEN adjusted_quantity ELSE signal.quantity
        trade_amount == TradeAmount(signal.price, quantity)
        total_cost == BuyTotalCost(trade_amount)
        capital_after == CapitalAfterBuy(current_capital, total_cost)
    IN  IF short /\ BelowOneLot(adjusted_quantity)
        THEN \* "return": the signal is dropped
             /\ positions' = pos0
             /\ UNCHANGED <<current_capital, trades>>
             /\ outcome' = "buy_dropped"
        ELSE IF position.quantity + quantity = 0
        THEN \* new_total_cost / new_quantity raises ZeroDivisionError after
             \* quantity and total_cost were assigned; _execute_trades catches it
             /\ positions' =
                    [pos0 EXCEPT ![symbol] =
                        [position EXCEPT
                            !.quantity = position.quantity + quantity,
                            !.total_cost = RAdd(position.total_cost, trade_amount)]]
             /\ UNCHANGED <<current_capital, trades>>
             /\ outcome' = "buy_raised"
        ELSE /\ positions' =
                    [pos0 EXCEPT ![symbol] =
                        BuyPosition(position, quantity, trade_amount)]
             /\ current_capital' = capital_after
             /\ trades' = Append(trades,
                              BuyRecord(symbol, quantity, signal.price, capital_after))
             /\ outcome' = IF short THEN "buy_adjusted" ELSE "buy_filled"

\* mutant: the requested quantity is sold whatever is held
SellQuantity_NoClamp(requested, held) == requested

\* "sell_quantity = min(signal.quantity, position['quantity'])"
SellQuantity(requested, held) == Min(requested, held)

\* mutant: every sell is charged the cost of the whole position
CostBasis_WholePosition(position, sell_quantity) ==
    RMul(position.avg_price, RInt(position.quantity))

CostBasis(position, sell_quantity) == RMul(position.avg_price, RInt(sell_quantity))

\* mutant: the stamp tax is not taken off the proceeds
NetAmount_NoStampTax(trade_amount) ==
    RSub(trade_amount, Commission(trade_amount))

NetAmount(trade_amount) ==
    RSub(trade_amount, RAdd(Commission(trade_amount), StampTax(trade_amount)))

\* mutant: the realized profit ignores the fees
ProfitLoss_NoFees(trade_amount, cost_basis) == RSub(trade_amount, cost_basis)

ProfitLoss(trade_amount, cost_basis) ==
    RSub(RSub(trade_amount, cost_basis),
         RAdd(Commission(trade_amount), StampTax(trade_amount)))

\* mutant: a partial sell leaves total_cost as it was
SellPosition_KeepCost(position, sell_quantity) ==
    IF position.quantity - sell_quantity > 0
    THEN [position EXCEPT !.quantity = position.quantity - sell_quantity]
    ELSE [quantity |-> position.quantity - sell_quantity,
          total_cost |-> RZero, avg_price |-> RZero]

\* the position after the sell branch's update
SellPosition(position, sell_quantity) ==
    IF position.quantity - sell_quantity > 0
    THEN [position EXCEPT
             !.quantity = position.quantity - sell_quantity,
             !.total_cost = RSub(position.total_cost,
                                 CostBasis(position, sell_quantity))]
    ELSE [quantity |-> position.quantity - sell_quantity,
          total_cost |-> RZero, avg_price |-> RZero]

SellRecord(symbol, sell_quantity, price, position, capital_after) ==
    LET trade_amount == TradeAmount(price, sell_quantity)
    IN  [action |-> "sell", symbol |-> symbol, quantity |-> sell_quantity,
         price |-> price, amount |-> trade_amount,
         commission |-> Commission(trade_amount),
         stamp_tax |-> StampTax(trade_amount),
         total_fees |-> RAdd(Commission(trade_amount), StampTax(trade_amount)),
         net_amount |-> NetAmount(trade_amount),
         profit_loss |-> ProfitLoss(trade_amount,
                                    CostBasis(position, sell_quantity)),
         capital_after |-> capital_after]

\* mutant: only a negative sell quantity returns early
NothingToSell_NegativeOnly(sell_quantity) == sell_quantity < 0

\* "if sell_quantity == 0: return"
NothingToSell(sell_quantity) == sell_quantity = 0

\* "self.current_capital += net_amount"
CapitalAfterSell(capital, net_amount) == RAdd(capital, net_amount)

ExecuteSell(signal) ==
    LET symbol == signal.symbol
        pos0 == WithPosition(positions, symbol)
        position == pos0[symbol]
        sell_quantity == SellQuantity(signal.quantity, position.quantity)
        capital_after ==
            CapitalAfterSell(current_capital,
                NetAmount(TradeAmount(signal.price, sell_quantity)))
    IN  IF NothingToSell(sell_quantity)
        THEN \* "return": nothing to sell
             /\ positions' = pos0
             /\ UNCHANGED <<current_capital, trades>>
             /\ outcome' = "sell_no_position"
        ELSE /\ positions' =
                    [pos0 EXCEPT ![symbol] = SellPosition(position, sell_quantity)]
             /\ current_capital' = capital_after
             /\ trades' = Append(trades,
                              SellRecord(symbol, sell_quantity, signal.price,
                                         position, capital_after))
             /\ outcome' = IF signal.quantity > position.quantity
                           THEN "sell_clamped" ELSE "sell_filled"

\* a signal whose type is neither buy nor sell only initialises the position
ExecuteOther(signal) ==
    /\ positions' = WithPosition(positions, signal.symbol)
    /\ UNCHANGED <<current_capital, trades>>
    /\ outcome' = "ignored"

\* one iteration of _execute_trades
ExecuteSingleTrade(signal) ==
    /\ component = "BacktestEngine"
    /\ steps < MaxSteps
    /\ steps' = steps + 1
    /\ request' = signal
    /\ IF signal.signal_type = "buy" THEN ExecuteBuy(signal)
       ELSE IF signal.signal_type = "sell" THEN ExecuteSell(signal)
       ELSE ExecuteOther(signal)
    /\ UNCHANGED <<component, initial_capital, ext_vars, pm_vars>>

ExecuteTrade ==
    /\ \E signal \in Signals : ExecuteSingleTrade(signal)
    /\ UNCHANGED sim_vars

(***************************************************************************)
(* PositionManager.buy_stock / sell_stock                                  *)
(* Position.entry_date and last_update hold datetime.now() and are left    *)
(* out of the Position record.                                             *)
(***************************************************************************)
transaction_cost == Rat(1, 1000)

\* the literals 0.0003 and 0.001 of sell_stock
pm_commission_rate == Rat(3, 10000)

pm_stamp_tax_rate == Rat(1, 1000)

\* "total_cost = shares * price * (1 + self.transaction_cost)"
PMTotalCost(shares, price) ==
    RMul(RMul(RInt(shares), price), RAdd(RInt(1), transaction_cost))

\* "if total_cost > self.cash: return False"
PMCashShort(total_cost, c) == RGt(total_cost, c)

\* mutant: the shares already held keep their old market value
PMAddPosition_KeepValue(old_position, shares, price) ==
    LET total_shares == old_position.shares + shares
        total_cost_basis ==
            RAdd(RMul(old_position.avg_cost, RInt(old_position.shares)),
                 RMul(RInt(shares), price))
        new_avg_cost == RDiv(total_cost_basis, RInt(total_shares))
    IN  [shares |-> total_shares,
         avg_cost |-> new_avg_cost,
         current_price |-> price,
         market_value |-> RAdd(old_position.market_value, RMul(RInt(shares), price)),
         unrealized_pnl |-> RMul(RSub(price, new_avg_cost), RInt(total_shares)),
         unrealized_pnl_pct |-> RDiv(RSub(price, new_avg_cost), new_avg_cost)]

\* Position(...) built when the symbol is already held
PMAddPosition(old_position, shares, price) ==
    LET total_shares == old_position.shares + shares
        total_cost_basis ==
            RAdd(RMul(old_position.avg_cost, RInt(old_position.shares)),
                 RMul(RInt(shares), price))
        new_avg_cost == RDiv(total_cost_basis, RInt(total_shares))
    IN  [shares |-> total_shares,
         avg_cost |-> new_avg_cost,
         current_price |-> price,
         market_value |-> RMul(RInt(total_shares), price),
         unrealized_pnl |-> RMul(RSub(price, new_avg_cost), RInt(total_shares)),
         unrealized_pnl_pct |-> RDiv(RSub(price, new_avg_cost), new_avg_cost)]

\* Position(...) built for a symbol that is not held
PMNewPosition(shares, price) ==
    [shares |-> shares,
     avg_cost |-> price,
     current_price |-> price,
     market_value |-> RMul(RInt(shares), price),
     unrealized_pnl |-> RZero,
     unrealized_pnl_pct |-> RZero]

buy_stock(symbol, shares, price) ==
    LET total_cost == PMTotalCost(shares, price)
    IN  /\ component = "PositionManager"
        /\ steps < MaxSteps
        /\ steps' = steps + 1
        /\ request' = [call |-> "buy_stock", symbol |-> symbol,
                       shares |-> shares, price |-> price]
        /\ IF PMCashShort(total_cost, cash)
           THEN /\ outcome' = "buy_stock_false"
                /\ UNCHANGED pm_vars
           ELSE IF symbol \in DOMAIN pm_positions
                   /\ pm_positions[symbol].shares + shares = 0
           THEN \* total_cost_basis / total_shares raises ZeroDivisionError,
                \* caught by the except clause: return False
                /\ outcome' = "buy_stock_raised"
                /\ UNCHANGED pm_vars
           ELSE /\ pm_positions' =
                      IF symbol \in DOMAIN pm_positions
                      THEN [pm_positions EXCEPT ![symbol] =
                               PMAddPosition(pm_positions[symbol], shares, price)]
                      ELSE (symbol :> PMNewPosition(shares, price)) @@ pm_positions
                /\ cash' = RSub(cash, total_cost)
                /\ outcome' = "buy_stock_true"
        /\ UNCHANGED <<component, initial_capital, ext_vars, bt_vars>>

\* "if shares > position.shares: shares = position.shares"
PMSellShares(shares, held) == IF shares > held THEN held ELSE shares

\* "net_income = gross_income - commission - stamp_tax"
PMNetIncome(shares, price) ==
    LET gross_income == RMul(RInt(shares), price)
        commission == RMul(gross_income, pm_commission_rate)
        stamp_tax == RMul(gross_income, pm_stamp_tax_rate)
    IN  RSub(RSub(gross_income, commission), stamp_tax)

\* variant: the remaining position is re-based on the sale price
PMRemainingPosition_Reprice(position, remaining_shares, price) ==
    [shares |-> remaining_shares,
     avg_cost |-> price,
     current_price |-> price,
     market_value |-> RMul(RInt(remaining_shares), price),
     unrealized_pnl |-> RZero,
     unrealized_pnl_pct |-> RZero]

\* Position(...) built for the shares that remain after a sell
PMRemainingPosition(position, remaining_shares, price) ==
    [shares |-> remaining_shares,
     avg_cost |-> position.avg_cost,
     current_price |-> price,
     market_value |-> RMul(RInt(remaining_shares), price),
     unrealized_pnl |-> RMul(RSub(price, position.avg_cost),
                             RInt(remaining_shares)),
     unrealized_pnl_pct |-> RDiv(RSub(price, position.avg_cost),
                                 position.avg_cost)]

\* the positions map with symbol removed ("del self.positions[symbol]")
PMWithout(pos, symbol) == [s \in DOMAIN pos \ {symbol} |-> pos[s]]

sell_stock(symbol, shares, price) ==
    /\ component = "PositionManager"
    /\ steps < MaxSteps
    /\ steps' = steps + 1
    /\ request' = [call |-> "sell_stock", symbol |-> symbol,
                   shares |-> shares, price |-> price]
    /\ IF symbol \notin DOMAIN pm_positions
       THEN /\ outcome' = "sell_stock_false"
            /\ UNCHANGED pm_vars
       ELSE LET position == pm_positions[symbol]
                sold == PMSellShares(shares, position.shares)
                remaining_shares == position.shares - sold
            IN  /\ pm_positions' =
                      IF remaining_shares > 0
                      THEN [pm_positions EXCEPT ![symbol] =
                               PMRemainingPosition(position, remaining_shares, price)]
                      ELSE PMWithout(pm_positions, symbol)
                /\ cash' = RAdd(cash, PMNetIncome(sold, price))
                /\ outcome' = IF shares > position.shares
                              THEN "sell_stock_clamped" ELSE "sell_stock_true"
    /\ UNCHANGED <<component, initial_capital, ext_vars, bt_vars>>

BuyStock ==
    /\ \E symbol \in Symbols, shares \in ShareCounts, price \in Prices :
          buy_stock(symbol, shares, price)
    /\ result' = NoResult
    /\ UNCHANGED <<risk_actions, current_prices>>

SellStock ==
    /\ \E symbol \in Symbols, shares \in ShareCounts, price \in Prices :
          sell_stock(symbol, shares, price)
    /\ result' = NoResult
    /\ UNCHANGED <<risk_actions, current_prices>>

(***************************************************************************)
(* PositionManager.calculate_position_size / check_risk_control            *)
(***************************************************************************)
\* defaults of PositionManager.__init__
max_position_pct == Rat(25, 100)

max_total_position == Rat(90, 100)

cash_reserve == Rat(10, 100)

stop_loss_pct == Rat(8, 100)

take_profit_pct == Rat(15, 100)

\* Python min() on two amounts
RMin(x, y) == IF RLe(x, y) THEN x ELSE y

\* "sum(pos.market_value for pos in self.positions.values())"
RECURSIVE SumMarketValue(_, _)
SumMarketValue(pos, syms) ==
    IF syms = {} THEN RZero
    ELSE LET s == CHOOSE t \in syms : TRUE
         IN  RAdd(pos[s].market_value, SumMarketValue(pos, syms \ {s}))

MarketValue(pos) == SumMarketValue(pos, DOMAIN pos)

\* variant: the order is sized at the bare price, without the fee
UnitCost_NoFee(current_price) == current_price

\* "current_price * (1 + self.transaction_cost)"
UnitCost(current_price) == RMul(current_price, RAdd(RInt(1), transaction_cost))

\* variant: a held symbol is sized like any other
AlreadyHeld_Never(symbol) == FALSE

\* "if symbol in self.positions: return 0"
AlreadyHeld(symbol) == symbol \in DOMAIN pm_positions

\* variant: the order is not capped by the remaining capacity
PositionValue_NoCap(base_position_value, remaining_capacity) ==
    base_position_value

\* "position_value = min(base_position_value, remaining_capacity)"
PositionValue(base_position_value, remaining_capacity) ==
    RMin(base_position_value, remaining_capacity)

\* the share count calculate_position_size returns in the current ledger
\* state; a ZeroDivisionError (total_value = 0) is caught and gives 0
calculate_position_size(symbol, signal_strength, current_price) ==
    IF AlreadyHeld(symbol) THEN 0
    ELSE
    LET available_cash == RMul(cash, RSub(RInt(1), cash_reserve))
        base_position_value ==
            RMul(RMul(available_cash, max_position_pct), signal_strength)
        current_market_value == MarketValue(pm_positions)
        total_value == RAdd(cash, current_market_value)
    IN  IF total_value = RZero THEN 0
        ELSE
        LET current_position_pct == RDiv(current_market_value, total_value)
        IN  IF RGe(current_position_pct, max_total_position) THEN 0
            ELSE
            LET remaining_capacity ==
                    RMul(RSub(max_total_position, current_position_pct),
                         total_value)
                position_value ==
                    PositionValue(base_position_value, remaining_capacity)
                shares == RTrunc(RDiv(position_value, UnitCost(current_price)))
                required_cash == RMul(RInt(shares), UnitCost(current_price))
                capped ==
                    IF RGt(required_cash, available_cash)
                    THEN RTrunc(RDiv(available_cash, UnitCost(current_price)))
                    ELSE shares
            IN  IF capped > 0 THEN capped ELSE 0

\* "pnl_pct = (current_price - position.avg_cost) / position.avg_cost"
PnlPct(position, current_price) ==
    RDiv(RSub(current_price, position.avg_cost), position.avg_cost)

\* variant: taking profit sells the whole position
RiskAction_SellAllOnProfit(symbol, position, current_price) ==
    LET pnl_pct == PnlPct(position, current_price)
    IN  IF RLe(pnl_pct, RNeg(stop_loss_pct)) \/ RGe(pnl_pct, take_profit_pct)
        THEN {<<symbol, "sell", position.shares>>}
        ELSE {}

\* the action check_risk_control appends for one position, as a set
RiskAction(symbol, position, current_price) ==
    LET pnl_pct == PnlPct(position, current_price)
    IN  IF RLe(pnl_pct, RNeg(stop_loss_pct))
        THEN {<<symbol, "sell", position.shares>>}
        ELSE IF RGe(pnl_pct, take_profit_pct)
             THEN LET sell_shares == position.shares \div 2
                  IN  IF sell_shares > 0
                      THEN {<<symbol, "sell", sell_shares>>}
                      ELSE {}
             ELSE {}

\* the actions check_risk_control returns for a price map; the list is in
\* dict order and is kept here as a set.  A position with avg_cost 0 raises
\* ZeroDivisionError inside the loop: the except clause returns [].
check_risk_control(prices) ==
    LET priced == DOMAIN pm_positions \cap DOMAIN prices
    IN  IF \E s \in priced : pm_positions[s].avg_cost = RZero
        THEN {}
        ELSE UNION {RiskAction(s, pm_positions[s], prices[s]) : s \in priced}

\* a call of check_risk_control on its own: the list is returned
CheckRiskControlCall(prices) ==
    /\ component = "PositionManager"
    /\ steps < MaxSteps
    /\ steps' = steps + 1
    /\ request' = [call |-> "check_risk_control", prices |-> prices]
    /\ result' = Returned("check_risk_control", check_risk_control(prices))
    /\ outcome' = "returned"
    /\ UNCHANGED <<component, initial_capital, ext_vars, bt_vars, pm_vars,
                   risk_actions, current_prices>>

CheckRiskControl == \E prices \in PriceMaps(RiskPrices) : CheckRiskControlCall(prices)

(***************************************************************************)
(* RealSimulationEngine: _execute_buy_order, _execute_sell_order,          *)
(* _risk_control.  The trade records written to the database are left out. *)
(***************************************************************************)
\* _execute_buy_order: size the order, place it when the size is positive
execute_buy_order(symbol, strength, price) ==
    LET shares == calculate_position_size(symbol, strength, price)
    IN  /\ risk_actions = {}
        /\ result' = Returned("calculate_position_size", shares)
        /\ IF shares > 0
           THEN buy_stock(symbol, shares, price)
           ELSE /\ component = "PositionManager"
                /\ steps < MaxSteps
                /\ steps' = steps + 1
                /\ request' = [call |-> "calculate_position_size",
                               symbol |-> symbol, price |-> price]
                /\ outcome' = "no_order"
                /\ UNCHANGED <<component, initial_capital, ext_vars, bt_vars, pm_vars>>
        /\ UNCHANGED <<risk_actions, current_prices>>

\* "shares_to_sell = int(position.shares * sell_ratio)", then whole lots
SharesToSell(held, strength) ==
    LET sell_ratio == RMin(RInt(1), strength)
    IN  (RTrunc(RMul(RInt(held), sell_ratio)) \div 100) * 100

\* _execute_sell_order
execute_sell_order(symbol, strength, price) ==
    LET shares_to_sell ==
            IF symbol \in DOMAIN pm_positions
            THEN SharesToSell(pm_positions[symbol].shares, strength)
            ELSE 0
    IN  /\ risk_actions = {}
        /\ result' = NoResult
        /\ IF shares_to_sell > 0
           THEN sell_stock(symbol, shares_to_sell, price)
           ELSE /\ component = "PositionManager"
                /\ steps < MaxSteps
                /\ steps' = steps + 1
                /\ request' = [call |-> "execute_sell_order",
                               symbol |-> symbol, price |-> price]
                /\ outcome' = "no_order"
                /\ UNCHANGED <<component, initial_capital, ext_vars, bt_vars, pm_vars>>
        /\ UNCHANGED <<risk_actions, current_prices>>

ExecuteBuyOrder(strengths, prices) ==
    \E symbol \in Symbols, strength \in strengths, price \in prices :
        execute_buy_order(symbol, strength, price)

ExecuteSellOrder ==
    \E symbol \in Symbols, strength \in Strengths, price \in LivePrices :
        execute_sell_order(symbol, strength, price)

\* variant: the check also re-prices the positions it looks at
risk_control_Reprice(prices) ==
    /\ component = "PositionManager"
    /\ risk_actions = {}
    /\ steps < MaxSteps
    /\ steps' = steps + 1
    /\ request' = [call |-> "check_risk_control", prices |-> prices]
    /\ result' = Returned("check_risk_control", check_risk_control(prices))
    /\ risk_actions' = check_risk_control(prices)
    /\ current_prices' = prices
    /\ outcome' = "returned"
    /\ pm_positions' =
          [s \in DOMAIN pm_positions |->
              IF s \in DOMAIN prices
              THEN [pm_positions[s] EXCEPT
                       !.current_price = prices[s],
                       !.market_value = RMul(RInt(pm_positions[s].shares), prices[s])]
              ELSE pm_positions[s]]
    /\ UNCHANGED <<component, initial_capital, ext_vars, bt_vars, cash>>

\* _risk_control, first half: the actions check_risk_control returns become
\* the work list of the loop that follows
risk_control(prices) ==
    /\ component = "PositionManager"
    /\ risk_actions = {}
    /\ steps < MaxSteps
    /\ steps' = steps + 1
    /\ request' = [call |-> "check_risk_control", prices |-> prices]
    /\ result' = Returned("check_risk_control", check_risk_control(prices))
    /\ risk_actions' = check_risk_control(prices)
    /\ current_prices' = prices
    /\ outcome' = "returned"
    /\ UNCHANGED <<component, initial_capital, ext_vars, bt_vars, pm_vars>>

RiskControl == \E prices \in PriceMaps(LivePrices) : risk_control(prices)

\* _risk_control, one iteration of "for symbol, action, shares in
\* risk_actions": nothing else runs until the list is used up
RiskSell ==
    \E a \in risk_actions :
        /\ IF a[2] = "sell" /\ a[1] \in DOMAIN current_prices
           THEN sell_stock(a[1], a[3], current_prices[a[1]])
           ELSE /\ component = "PositionManager"
                /\ steps < MaxSteps
                /\ steps' = steps + 1
                /\ request' = [call |-> "skip"]
                /\ outcome' = "no_order"
                /\ UNCHANGED <<component, initial_capital, ext_vars, bt_vars, pm_vars>>
        /\ risk_actions' = risk_actions \ {a}
        /\ result' = NoResult
        /\ UNCHANGED current_prices

(***************************************************************************)
(* StrategyManager: signal combination                                     *)
(* The signals of one symbol are a map from the strategies that produced a *)
(* signal to that signal's type and strength.                              *)
(***************************************************************************)
StrategyNames == {"double_ma", "rsi", "macd"}

\* strategy_weights: the defaults, and a two-strategy configuration
WeightConfigs ==
    {[n \in StrategyNames |->
         IF n = "double_ma" THEN Rat(4, 10) ELSE Rat(3, 10)],
     [n \in StrategyNames |->
         IF n = "double_ma" THEN Rat(6, 10)
         ELSE IF n = "rsi" THEN Rat(4, 10) ELSE RZero]}

\* min_signal_confidence: the default 0.6 and two lower settings
MinConfidences == {Rat(1, 10), Rat(3, 10), Rat(6, 10)}

\* what one strategy's latest signal can be
StrategySignals ==
    [signal_type : {"BUY", "SELL"}, strength : {Rat(1, 2), RInt(1)}]
    \cup [signal_type : {"HOLD"}, strength : {RZero}]

\* _initialize_strategies: only strategies of positive weight exist
ActiveStrategies(strategy_weights) ==
    {n \in StrategyNames : RGt(strategy_weights[n], RZero)}

\* individual_signals for one symbol: some active strategies produced a signal
SignalMaps(strategy_weights) ==
    UNION {[S -> StrategySignals] : S \in SUBSET ActiveStrategies(strategy_weights)}

RAbs(x) == IF x.n < 0 THEN RNeg(x) ELSE x

\* "x_weight += weight * signal.strength" over the signals of one type
RECURSIVE TypeWeight(_, _, _, _)
TypeWeight(signals, strategy_weights, type, names) ==
    IF names = {} THEN RZero
    ELSE LET n == CHOOSE m \in names : TRUE
             rest == TypeWeight(signals, strategy_weights, type, names \ {n})
         IN  IF RGt(strategy_weights[n], RZero) /\ signals[n].signal_type = type
             THEN RAdd(rest, RMul(strategy_weights[n], signals[n].strength))
             ELSE rest

\* "total_weight += weight"
RECURSIVE TotalWeight(_, _, _)
TotalWeight(signals, strategy_weights, names) ==
    IF names = {} THEN RZero
    ELSE LET n == CHOOSE m \in names : TRUE
             rest == TotalWeight(signals, strategy_weights, names \ {n})
         IN  IF RGt(strategy_weights[n], RZero)
             THEN RAdd(rest, strategy_weights[n])
             ELSE rest

\* "net_signal = (buy_weight - sell_weight) / total_weight"
NetSignal(signals, strategy_weights) ==
    RDiv(RSub(TypeWeight(signals, strategy_weights, "BUY", DOMAIN signals),
              TypeWeight(signals, strategy_weights, "SELL", DOMAIN signals)),
         TotalWeight(signals, strategy_weights, DOMAIN signals))

\* a combiner returning None
NoSignal == [signal_type |-> "None"]

CombinedSignal(signal_type, combined_strength, confidence) ==
    [signal_type |-> signal_type, combined_strength |-> combined_strength,
     confidence |-> confidence]

\* "confidence = min(abs(net_signal) * 2, 1.0)"
WeightedConfidence(net_signal) == RMin(RMul(RAbs(net_signal), RInt(2)), RInt(1))

\* _weighted_average_combination
weighted_average_combination(signals, strategy_weights) ==
    IF TotalWeight(signals, strategy_weights, DOMAIN signals) = RZero
    THEN NoSignal
    ELSE LET net_signal == NetSignal(signals, strategy_weights)
             confidence == WeightedConfidence(net_signal)
         IN  IF RGt(net_signal, Rat(1, 10))
             THEN CombinedSignal("BUY", RMin(net_signal, RInt(1)), confidence)
             ELSE IF RLt(net_signal, Rat(-1, 10))
                  THEN CombinedSignal("SELL", RMin(RAbs(net_signal), RInt(1)),
                                      confidence)
                  ELSE CombinedSignal("HOLD", RZero, confidence)

\* number of signals of the given types
Votes(signals, types) ==
    Cardinality({n \in DOMAIN signals : signals[n].signal_type \in types})

Max3(a, b, c) ==
    IF a >= b /\ a >= c THEN a ELSE IF b >= c THEN b ELSE c

\* variant: a vote is always fully confident
VoteConfidence_Certain(buy_votes, sell_votes, hold_votes, total_votes) == RInt(1)

\* "confidence = max(buy_votes, sell_votes, hold_votes) / total_votes"
VoteConfidence(buy_votes, sell_votes, hold_votes, total_votes) ==
    Rat(Max3(buy_votes, sell_votes, hold_votes), total_votes)

\* _majority_vote_combination, for a non-empty list of signals
majority_vote_combination(signals) ==
    LET buy_votes == Votes(signals, {"BUY"})
        sell_votes == Votes(signals, {"SELL"})
        hold_votes == Votes(signals, {"HOLD"})
        total_votes == Cardinality(DOMAIN signals)
        confidence == VoteConfidence(buy_votes, sell_votes, hold_votes, total_votes)
    IN  IF buy_votes > sell_votes /\ buy_votes > hold_votes
        THEN CombinedSignal("BUY", Rat(buy_votes, total_votes), confidence)
        ELSE IF sell_votes > buy_votes /\ sell_votes > hold_votes
             THEN CombinedSignal("SELL", Rat(sell_votes, total_votes), confidence)
             ELSE CombinedSignal("HOLD", RZero, confidence)

\* sum of "s.strength for s in signals"
RECURSIVE SumStrength(_, _)
SumStrength(signals, names) ==
    IF names = {} THEN RZero
    ELSE LET n == CHOOSE m \in names : TRUE
         IN  RAdd(signals[n].strength, SumStrength(signals, names \ {n}))

\* variant: the strength of one of the signals instead of their mean
AvgStrength_Any(signals) == signals[CHOOSE n \in DOMAIN signals : TRUE].strength

\* "avg_strength = np.mean([s.strength for s in signals])"
AvgStrength(signals) ==
    RDiv(SumStrength(signals, DOMAIN signals), RInt(Cardinality(DOMAIN signals)))

\* _unanimous_combination, for a non-empty list of signals: a signal whose
\* type differs from the first one's exists exactly when two types differ
unanimous_combination(signals) ==
    LET first_signal_type == signals[CHOOSE n \in DOMAIN signals : TRUE].signal_type
    IN  IF \E n \in DOMAIN signals : signals[n].signal_type # first_signal_type
        THEN CombinedSignal("HOLD", RZero, RZero)
        ELSE CombinedSignal(first_signal_type, AvgStrength(signals), RInt(1))

\* _combine_signals: dispatch on signal_combination
combine_signals(signal_combination, signals, strategy_weights) ==
    IF signal_combination = "majority_vote"
    THEN majority_vote_combination(signals)
    ELSE IF signal_combination = "unanimous"
         THEN unanimous_combination(signals)
         ELSE weighted_average_combination(signals, strategy_weights)

\* "if combined_signal and combined_signal.confidence >= self.min_confidence"
Delivered(combined_signal, min_confidence) ==
    IF combined_signal # NoSignal /\ RGe(combined_signal.confidence, min_confidence)
    THEN {combined_signal}
    ELSE {}

\* generate_combined_signals for one symbol with enough data: the combined
\* signal, and what is appended to the returned list
generate_combined_signals(signal_combination, strategy_weights, min_confidence, signals) ==
    /\ component = "SignalCombiner"
    /\ request.call = "none"
    /\ request' = [call |-> "generate_combined_signals",
                   signal_combination |-> signal_combination,
                   strategy_weights |-> strategy_weights,
                   min_confidence |-> min_confidence,
                   signals |-> signals]
    /\ result' =
          IF DOMAIN signals = {}
          THEN Returned("generate_combined_signals",
                        [combined |-> NoSignal, delivered |-> {}])
          ELSE LET combined_signal ==
                       combine_signals(signal_combination, signals, strategy_weights)
               IN  Returned("generate_combined_signals",
                            [combined |-> combined_signal,
                             delivered |-> Delivered(combined_signal, min_confidence)])
    /\ outcome' = "returned"
    /\ UNCHANGED <<component, initial_capital, ext_vars, bt_vars, pm_vars, steps,
                   risk_actions, current_prices>>

CombineWeightedAverage ==
    \E strategy_weights \in WeightConfigs, min_confidence \in MinConfidences :
        \E signals \in SignalMaps(strategy_weights) :
            generate_combined_signals("weighted_average", strategy_weights,
                                      min_confidence, signals)

CombineMajorityVote ==
    \E strategy_weights \in WeightConfigs, min_confidence \in MinConfidences :
        \E signals \in SignalMaps(strategy_weights) :
            generate_combined_signals("majority_vote", strategy_weights,
                                      min_confidence, signals)

CombineUnanimous ==
    \E strategy_weights \in WeightConfigs, min_confidence \in MinConfidences :
        \E signals \in SignalMaps(strategy_weights) :
            generate_combined_signals("unanimous", strategy_weights,
                                      min_confidence, signals)

(***************************************************************************)
(* MultiStrategy: weights and _combine_signals for one timestamp           *)
(***************************************************************************)
MemberStrategies == {"first", "second"}

\* the weights MultiStrategy is constructed with
SuppliedWeights ==
    {[m \in MemberStrategies |-> IF m = "first" THEN Rat(6, 10) ELSE Rat(4, 10)],
     [m \in MemberStrategies |-> IF m = "first" THEN RInt(3) ELSE RInt(2)]}

\* signal_threshold: two low settings and the default 0.6
SignalThresholds == {Rat(1, 10), Rat(3, 10), Rat(6, 10)}

\* signal types as the strategies write them
MemberSignalTypes == {"buy", "sell", "hold"}

\* the member signals that share one timestamp
MemberSignalMaps == UNION {[S -> MemberSignalTypes] : S \in SUBSET MemberStrategies}

\* str.upper() on a signal type
Upper(t) ==
    IF t \in {"buy", "BUY"} THEN "BUY"
    ELSE IF t \in {"sell", "SELL"} THEN "SELL"
    ELSE "HOLD"

RECURSIVE SumWeights(_, _)
SumWeights(weights, names) ==
    IF names = {} THEN RZero
    ELSE LET n == CHOOSE m \in names : TRUE
         IN  RAdd(weights[n], SumWeights(weights, names \ {n}))

\* MultiStrategy.__init__: weights off 1.0 by more than 0.01 are normalised
NormalizedWeights(weights) ==
    LET total_weight == SumWeights(weights, DOMAIN weights)
    IN  IF RGt(RAbs(RSub(total_weight, RInt(1))), Rat(1, 100))
        THEN [m \in DOMAIN weights |-> RDiv(weights[m], total_weight)]
        ELSE weights

\* "signal_strength[timestamp]['buy_strength'] += weight" (and sell_strength)
SideStrength(signals, weights, side) ==
    SumWeights(weights, {m \in DOMAIN signals : Upper(signals[m]) = side})

\* Signal(...) as _combine_signals builds it: quantity 0, and the confidence
\* left at the default of Signal.__init__
MemberSignal(signal_type) ==
    [signal_type |-> signal_type, quantity |-> 0, confidence |-> RInt(1)]

\* the signals _combine_signals builds for the timestamp, before filtering
multi_combine(signals, weights, signal_threshold) ==
    IF DOMAIN signals = {} THEN {}
    ELSE LET net_strength == RSub(SideStrength(signals, weights, "BUY"),
                                  SideStrength(signals, weights, "SELL"))
         IN  IF RGe(RAbs(net_strength), signal_threshold)
             THEN IF RGt(net_strength, RZero)
                  THEN {MemberSignal("BUY")}
                  ELSE {MemberSignal("SELL")}
             ELSE {}

\* _combine_signals on the signals of one timestamp; confirmed is what
\* _technical_confirmation answers for the combined signal
MultiCombineCall(supplied, signal_threshold, signals, confirmed) ==
    LET weights == NormalizedWeights(supplied)
        emitted == multi_combine(signals, weights, signal_threshold)
    IN  /\ component = "SignalCombiner"
        /\ request.call = "none"
        /\ request' = [call |-> "MultiStrategy._combine_signals",
                       weights |-> weights,
                       signal_threshold |-> signal_threshold,
                       signals |-> signals,
                       confirmed |-> confirmed]
        /\ result' = Returned("MultiStrategy._combine_signals",
                              [emitted |-> emitted,
                               delivered |-> IF confirmed THEN emitted ELSE {}])
        /\ outcome' = "returned"
        /\ UNCHANGED <<component, initial_capital, ext_vars, bt_vars, pm_vars, steps,
                       risk_actions, current_prices>>

MultiCombine ==
    \E supplied \in SuppliedWeights, signal_threshold \in SignalThresholds,
       signals \in MemberSignalMaps, confirmed \in BOOLEAN :
        MultiCombineCall(supplied, signal_threshold, signals, confirmed)

(***************************************************************************)
(* MultiStrategy._filter_signals                                           *)
(* Timestamps are whole hours counted from the start of the data; a        *)
(* combined signal is its type and timestamp, together with the answer     *)
(* _technical_confirmation gives for it.                                   *)
(***************************************************************************)
\* the timestamps a combined signal can carry
TimeStamps == {0, 12, 24, 36, 48, 120}

\* longest list of combined signals handed to the filter
MaxSignals == 3

\* rebalance_frequency: the default 5 and two shorter settings
RebalanceFrequencies == {1, 2, 5}

\* the combined signals of _combine_signals before they are sorted: one per
\* timestamp
CombinedSignalMaps ==
    UNION {[T -> [signal_type : {"BUY", "SELL"}, confirmed : BOOLEAN]] :
              T \in {U \in SUBSET TimeStamps : Cardinality(U) <= MaxSignals}}

\* "combined_signals.sort(key=lambda x: x.timestamp)"
RECURSIVE SortByTimestamp(_)
SortByTimestamp(signals) ==
    IF DOMAIN signals = {} THEN <<>>
    ELSE LET t == CHOOSE u \in DOMAIN signals : \A v \in DOMAIN signals : u <= v
             rest == [v \in DOMAIN signals \ {t} |-> signals[v]]
         IN  <<[signal_type |-> signals[t].signal_type, timestamp |-> t,
                confirmed |-> signals[t].confirmed]>> \o SortByTimestamp(rest)

\* timedelta.days of a difference of two timestamps
Days(hours) == hours \div 24

\* last_signal_type / last_signal_time before any signal was kept
NoLast == [signal_type |-> "None", timestamp |-> -1]

\* variant: no signal is ever skipped
Suppressed_Never(signal, last, rebalance_frequency) == FALSE

\* "last_signal_type == signal.signal_type and last_signal_time and
\*  (signal.timestamp - last_signal_time).days < rebalance_frequency"
Suppressed(signal, last, rebalance_frequency) ==
    /\ last.signal_type = signal.signal_type
    /\ last # NoLast
    /\ Days(signal.timestamp - last.timestamp) < rebalance_frequency

\* the loop of _filter_signals from the i-th signal on
RECURSIVE FilterFrom(_, _, _, _, _)
FilterFrom(signals, i, last, filtered_signals, rebalance_frequency) ==
    IF i > Len(signals) THEN filtered_signals
    ELSE LET signal == signals[i]
         IN  IF Suppressed(signal, last, rebalance_frequency)
             THEN FilterFrom(signals, i + 1, last, filtered_signals,
                             rebalance_frequency)
             ELSE IF signal.confirmed
                  THEN FilterFrom(signals, i + 1,
                                  [signal_type |-> signal.signal_type,
                                   timestamp |-> signal.timestamp],
                                  Append(filtered_signals, signal),
                                  rebalance_frequency)
                  ELSE FilterFrom(signals, i + 1, last, filtered_signals,
                                  rebalance_frequency)

filter_signals(signals, rebalance_frequency) ==
    /\ request' = [call |-> "_filter_signals", signals |-> signals,
                   rebalance_frequency |-> rebalance_frequency]
    /\ result' = Returned("_filter_signals",
                          FilterFrom(signals, 1, NoLast, <<>>, rebalance_frequency))
    /\ outcome' = "returned"
    /\ UNCHANGED <<component, initial_capital, ext_vars, bt_vars, pm_vars, steps,
                   risk_actions, current_prices>>

FilterSignals ==
    /\ component = "SignalCombiner"
    /\ request.call = "none"
    /\ \E combined \in CombinedSignalMaps,
          rebalance_frequency \in RebalanceFrequencies :
           filter_signals(SortByTimestamp(combined), rebalance_frequency)

(***************************************************************************)
(* Stored combiner weights: MultiStrategy.__init__ / update_weights and     *)
(* StrategyManager.__init__ / update_strategy_weights                       *)
(***************************************************************************)
\* weights that miss 1.0 by no more than the tolerance of MultiStrategy.__init__
ToleratedWeights ==
    {[m \in MemberStrategies |-> IF m = "first" THEN Rat(1, 2) ELSE Rat(99, 200)]}

\* strategy weights of a configuration that sets only double_ma's weight
PartialWeightConfigs ==
    {[n \in StrategyNames |-> IF n = "double_ma" THEN Rat(1, 2) ELSE Rat(3, 10)]}

\* the weights an update can name
WeightValues == {RZero, Rat(1, 2), RInt(2)}

\* new_weights of MultiStrategy.update_weights
MemberNewWeights == UNION {[S -> WeightValues] : S \in SUBSET MemberStrategies}

\* new_weights of StrategyManager.update_strategy_weights
ManagerNewWeights == UNION {[S -> WeightValues] : S \in SUBSET StrategyNames}

\* "{k: weight / total_weight for k, weight in weights.items()}"
Normalize(weights, total_weight) ==
    [m \in DOMAIN weights |-> RDiv(weights[m], total_weight)]

\* MultiStrategy.update_weights: the named strategies get the new weight, the
\* others keep theirs, and the result is normalised when its total is positive
UpdatedWeights(stored, new_weights) ==
    LET updated_strategies ==
            [m \in DOMAIN stored |->
                IF m \in DOMAIN new_weights THEN new_weights[m] ELSE stored[m]]
        total_weight == SumWeights(updated_strategies, DOMAIN stored)
    IN  IF RGt(total_weight, RZero)
        THEN Normalize(updated_strategies, total_weight)
        ELSE stored

update_weights(new_weights) ==
    /\ component = "MultiStrategy"
    /\ steps < MaxSteps
    /\ steps' = steps + 1
    /\ request' = [call |-> "update_weights", new_weights |-> new_weights]
    /\ stored_weights' = UpdatedWeights(stored_weights, new_weights)
    /\ outcome' = "returned"
    /\ result' = NoResult
    /\ UNCHANGED <<component, initial_capital, bt_vars, pm_vars,
                   risk_actions, current_prices, run, reports, thread_vars, read_vars>>

UpdateWeights == \E new_weights \in MemberNewWeights : update_weights(new_weights)

\* StrategyManager.update_strategy_weights: the new dictionary replaces the
\* stored one, normalised, unless its total is not positive
ManagerUpdatedWeights(stored, new_weights) ==
    LET total_weight == SumWeights(new_weights, DOMAIN new_weights)
    IN  IF RGt(total_weight, RZero)
        THEN Normalize(new_weights, total_weight)
        ELSE stored

update_strategy_weights(new_weights) ==
    /\ component = "StrategyManager"
    /\ steps < MaxSteps
    /\ steps' = steps + 1
    /\ request' = [call |-> "update_strategy_weights", new_weights |-> new_weights]
    /\ stored_weights' = ManagerUpdatedWeights(stored_weights, new_weights)
    /\ outcome' = "returned"
    /\ result' = NoResult
    /\ UNCHANGED <<component, initial_capital, bt_vars, pm_vars,
                   risk_actions, current_prices, run, reports, thread_vars, read_vars>>

UpdateStrategyWeights ==
    \E new_weights \in ManagerNewWeights : update_strategy_weights(new_weights)

(***************************************************************************)
(* BacktestEngine.run_backtest                                             *)
(* A run is modelled in three steps: the collection of the signals up to   *)
(* the sort (StartRun), one iteration of _execute_trades per signal        *)
(* (ExecuteQueued), and the valuation, metrics and report (FinishRun).     *)
(* Dates are day numbers; historical_data[symbol] maps the days that have  *)
(* a bar to the close.  No data_fetcher is passed.                         *)
(***************************************************************************)
\* number of run_backtest calls on one engine
MaxRuns == 2

\* start_date and end_date of a run
start_date == 1

end_date == 3

\* a frame with a bar on every day, the last one after end_date
FullFrame == (1 :> RInt(10)) @@ (2 :> RInt(11)) @@ (3 :> RInt(10)) @@ (4 :> RInt(12))

\* a frame of a stock that did not trade on day 2
GapFrame == (1 :> RInt(10)) @@ (3 :> RInt(11))

\* "data.empty"
EmptyFrame == [d \in {} |-> RZero]

Frames == {FullFrame, GapFrame, EmptyFrame}

\* the symbols argument: a list, in the order the caller wrote it
SymbolLists == {<<"A">>, <<"B">>, <<"A", "B">>, <<"B", "A">>}

Range(seq) == {seq[i] : i \in 1..Len(seq)}

\* quantity the strategies ask for
OrderQuantity == 1000

StrategySignal(symbol, signal_type, data, day) ==
    [symbol |-> symbol, signal_type |-> signal_type, price |-> data[day],
     quantity |-> OrderQuantity, timestamp |-> day]

\* what strategy.generate_signals(data, symbol) can do on a non-empty frame:
\* raise, or return a list of signals dated on bars of the frame; the frame is
\* handed over as the caller supplied it, so a bar after end_date can carry a
\* signal
GenerateSignals(symbol, data) ==
    LET days == {d \in DOMAIN data : start_date <= d /\ d <= end_date}
        later == {d \in DOMAIN data : d > end_date}
        first == CHOOSE d \in days : \A e \in days : d <= e
        last == CHOOSE d \in days : \A e \in days : e <= d
        next == CHOOSE d \in days \ {first} : \A e \in days \ {first} : d <= e
    IN  {[raises |-> TRUE, signals |-> <<>>]} \cup
        {[raises |-> FALSE, signals |-> l] :
            l \in {<<>>,
                   <<StrategySignal(symbol, "buy", data, first)>>,
                   <<StrategySignal(symbol, "buy", data, next)>>,
                   <<StrategySignal(symbol, "buy", data, first),
                     StrategySignal(symbol, "sell", data, last)>>}} \cup
        {[raises |-> FALSE,
          signals |-> <<StrategySignal(symbol, "buy", data, first),
                        StrategySignal(symbol, "sell", data, d)>>] : d \in later}

\* the symbols the strategy is called for
WithData(historical_data) ==
    {s \in DOMAIN historical_data : historical_data[s] # EmptyFrame}

\* the strategy's behaviour for each symbol it is called for
Strategies(historical_data) ==
    LET called == WithData(historical_data)
        all == UNION {GenerateSignals(s, historical_data[s]) : s \in called}
    IN  {st \in [called -> all] :
            \A s \in called : st[s] \in GenerateSignals(s, historical_data[s])}

\* the arguments of run_backtest for a list of symbols: historical_data has a
\* frame for some of them
RunArguments(symbols) ==
    UNION {{[symbols |-> symbols, historical_data |-> h, strategy |-> st] :
               st \in Strategies(h)} :
           h \in UNION {[S -> Frames] : S \in SUBSET Range(symbols)}}

RunInputs == UNION {RunArguments(symbols) : symbols \in SymbolLists}

\* the arguments of the runs of an engine that is used again: both symbols
\* have a full frame
RerunInputs ==
    {a \in RunArguments(<<"A", "B">>) :
        \A s \in Symbols : s \in DOMAIN a.historical_data
                           /\ a.historical_data[s] = FullFrame}

\* variant: the loop over the symbols ends at the first symbol that fails
RECURSIVE CollectFrom_Fatal(_, _, _)
CollectFrom_Fatal(args, i, acc) ==
    IF i > Len(args.symbols) THEN acc
    ELSE LET symbol == args.symbols[i]
         IN  IF \/ symbol \notin DOMAIN args.historical_data
                \/ args.historical_data[symbol] = EmptyFrame
                \/ args.strategy[symbol].raises
             THEN acc
             ELSE CollectFrom_Fatal(args, i + 1,
                      [all_signals |->
                           acc.all_signals \o args.strategy[symbol].signals,
                       stock_data |->
                           (symbol :> args.historical_data[symbol]) @@ acc.stock_data])

\* the loop over the symbols from the i-th on (lines 92-126): a symbol without
\* a data source or with an empty frame is skipped; a symbol whose
\* generate_signals raises has its frame stored already
RECURSIVE CollectFrom(_, _, _)
CollectFrom(args, i, acc) ==
    IF i > Len(args.symbols) THEN acc
    ELSE LET symbol == args.symbols[i]
         IN  IF symbol \notin DOMAIN args.historical_data
             THEN CollectFrom(args, i + 1, acc)
             ELSE LET data == args.historical_data[symbol]
                      stored == [acc EXCEPT
                                    !.stock_data = (symbol :> data) @@ acc.stock_data]
                  IN  IF data = EmptyFrame
                      THEN CollectFrom(args, i + 1, acc)
                      ELSE IF args.strategy[symbol].raises
                      THEN CollectFrom(args, i + 1, stored)
                      ELSE CollectFrom(args, i + 1,
                               [stored EXCEPT
                                   !.all_signals =
                                       acc.all_signals \o args.strategy[symbol].signals])

NoStockData == [s \in {} |-> EmptyFrame]

Collected(args) ==
    CollectFrom(args, 1, [all_signals |-> <<>>, stock_data |-> NoStockData])

\* the list without its i-th element
Without(seq, i) == SubSeq(seq, 1, i - 1) \o SubSeq(seq, i + 1, Len(seq))

\* "all_signals.sort(key=lambda x: x.timestamp)": list.sort is stable, signals
\* of equal timestamp keep the order in which they were collected
RECURSIVE SortSignals(_)
SortSignals(signals) ==
    IF signals = <<>> THEN <<>>
    ELSE LET i == CHOOSE j \in 1..Len(signals) :
                      /\ \A k \in 1..Len(signals) :
                            signals[j].timestamp <= signals[k].timestamp
                      /\ \A k \in 1..(j - 1) :
                            signals[k].timestamp # signals[j].timestamp
         IN  <<signals[i]>> \o SortSignals(Without(signals, i))

\* variant: a new run goes on with the cash the last one left
ResetCapital_Keep(initial, current) == current

\* _reset_backtest: "self.current_capital = self.initial_capital"
ResetCapital(initial, current) == initial

\* no run was started on the engine
IdleRun ==
    [phase |-> "idle", args |-> [symbols |-> <<>>], all_signals |-> <<>>,
     stock_data |-> NoStockData, executed |-> <<>>, trade_times |-> <<>>]

\* run_backtest up to the sort: the engine is reset, the signals are collected
\* symbol by symbol and sorted
start_run(args) ==
    /\ current_capital' = ResetCapital(initial_capital, current_capital)
    /\ positions' = [s \in {} |-> EmptyPosition]
    /\ trades' = <<>>
    /\ run' = [phase |-> "executing", args |-> args,
               all_signals |-> SortSignals(Collected(args).all_signals),
               stock_data |-> Collected(args).stock_data,
               executed |-> <<>>, trade_times |-> <<>>]
    /\ request' = [call |-> "run_backtest"]
    /\ outcome' = "started"
    /\ UNCHANGED <<component, initial_capital, pm_vars, steps, sim_vars,
                   stored_weights, reports, thread_vars, read_vars>>

StartRun(inputs, max_runs) ==
    /\ component = "BacktestEngine"
    /\ run.phase \in {"idle", "done"}
    /\ Len(reports) < max_runs
    /\ \E args \in inputs : start_run(args)

\* the Signal object after _execute_single_trade: a BUY that is downsized has
\* its quantity overwritten ("signal.quantity = adjusted_quantity")
SignalAfter(signal, capital) ==
    LET short == InsufficientFunds(
                     BuyTotalCost(TradeAmount(signal.price, signal.quantity)),
                     capital)
        adjusted_quantity == AdjustedQuantity(capital, signal.price)
    IN  IF signal.signal_type = "buy" /\ short /\ ~BelowOneLot(adjusted_quantity)
        THEN [signal EXCEPT !.quantity = adjusted_quantity]
        ELSE signal

\* one iteration of _execute_trades in a run: the head of the sorted list
ExecuteQueued ==
    /\ component = "BacktestEngine"
    /\ run.phase = "executing"
    /\ run.all_signals # <<>>
    /\ LET signal == Head(run.all_signals)
       IN  /\ request' = signal
           /\ IF signal.signal_type = "buy" THEN ExecuteBuy(signal)
              ELSE IF signal.signal_type = "sell" THEN ExecuteSell(signal)
              ELSE ExecuteOther(signal)
           /\ run' = [run EXCEPT
                         !.all_signals = Tail(run.all_signals),
                         !.executed =
                             Append(run.executed,
                                    [requested |-> signal,
                                     signal |-> SignalAfter(signal, current_capital)]),
                         !.trade_times =
                             IF Len(trades') > Len(trades)
                             THEN Append(run.trade_times, signal.timestamp)
                             ELSE run.trade_times]
    /\ UNCHANGED <<component, initial_capital, pm_vars, steps, sim_vars,
                   stored_weights, reports, thread_vars, read_vars>>

\* the trade records with the timestamp field of the signal they came from
TimedTrades(trade_log, times) ==
    [k \in 1..Len(trade_log) |-> [timestamp |-> times[k]] @@ trade_log[k]]

\* "trading_days": the dates of all frames within [start_date, end_date]
TradingDays(stock_data) ==
    {d \in UNION {DOMAIN stock_data[s] : s \in DOMAIN stock_data} :
        start_date <= d /\ d <= end_date}

\* current_positions[symbol]['quantity'], 0 for a symbol not yet replayed
ReplayedQuantity(current_positions, symbol) ==
    IF symbol \in DOMAIN current_positions THEN current_positions[symbol] ELSE 0

\* the replay of one trade record (lines 313-332)
ReplayTrade(state, trade) ==
    IF trade.action = "buy"
    THEN [current_positions |->
              (trade.symbol :>
                  ReplayedQuantity(state.current_positions, trade.symbol)
                  + trade.quantity) @@ state.current_positions,
          current_cash |-> RSub(state.current_cash, trade.total_cost)]
    ELSE [current_positions |->
              (trade.symbol :>
                  ReplayedQuantity(state.current_positions, trade.symbol)
                  - trade.quantity) @@ state.current_positions,
          current_cash |-> RAdd(state.current_cash, trade.net_amount)]

\* "daily_trades": the replay of the trades of one date, from the k-th on
RECURSIVE ReplayDay(_, _, _, _)
ReplayDay(timed, k, date, state) ==
    IF k > Len(timed) THEN state
    ELSE ReplayDay(timed, k + 1, date,
                   IF timed[k].timestamp = date
                   THEN ReplayTrade(state, timed[k])
                   ELSE state)

\* "if ... symbol in stock_data: ... if date in symbol_data.index"
PricedOn(symbol, stock_data, date) ==
    symbol \in DOMAIN stock_data /\ date \in DOMAIN stock_data[symbol]

\* the sum of quantity * close over the given symbols
RECURSIVE SumValue(_, _, _, _)
SumValue(current_positions, stock_data, date, symbols) ==
    IF symbols = {} THEN RZero
    ELSE LET s == CHOOSE t \in symbols : TRUE
         IN  RAdd(RMul(RInt(current_positions[s]), stock_data[s][date]),
                  SumValue(current_positions, stock_data, date, symbols \ {s}))

\* "portfolio_value = current_cash", plus every position that has a bar
PortfolioValue(state, stock_data, date) ==
    RAdd(state.current_cash,
         SumValue(state.current_positions, stock_data, date,
                  {s \in DOMAIN state.current_positions :
                      /\ state.current_positions[s] > 0
                      /\ PricedOn(s, stock_data, date)}))

\* current_positions and current_cash when the loop over the days has ended
RECURSIVE ReplayedFrom(_, _, _)
ReplayedFrom(days, timed, state) ==
    IF days = {} THEN state
    ELSE LET date == CHOOSE d \in days : \A e \in days : d <= e
         IN  ReplayedFrom(days \ {date}, timed, ReplayDay(timed, 1, date, state))

\* the replay's ledger at the end of _calculate_daily_portfolio_values
Replayed(timed, stock_data, initial) ==
    ReplayedFrom(TradingDays(stock_data), timed,
                 [current_positions |-> [s \in {} |-> 0], current_cash |-> initial])

\* the loop over the trading days of _calculate_daily_portfolio_values
RECURSIVE DailyValuesFrom(_, _, _, _, _, _)
DailyValuesFrom(days, timed, stock_data, state, prev_value, acc) ==
    IF days = {} THEN acc
    ELSE LET date == CHOOSE d \in days : \A e \in days : d <= e
             replayed == ReplayDay(timed, 1, date, state)
             portfolio_value == PortfolioValue(replayed, stock_data, date)
         IN  DailyValuesFrom(days \ {date}, timed, stock_data, replayed,
                 portfolio_value,
                 [portfolio_values |->
                      Append(acc.portfolio_values,
                             [date |-> date,
                              portfolio_value |-> portfolio_value,
                              cash |-> replayed.current_cash,
                              positions_value |->
                                  RSub(portfolio_value, replayed.current_cash)]),
                  daily_returns |->
                      Append(acc.daily_returns,
                             RDiv(RSub(portfolio_value, prev_value), prev_value))])

\* _calculate_daily_portfolio_values
DailyPortfolioValues(timed, stock_data, initial) ==
    DailyValuesFrom(TradingDays(stock_data), timed, stock_data,
                    [current_positions |-> [s \in {} |-> 0],
                     current_cash |-> initial],
                    initial,
                    [portfolio_values |-> <<>>, daily_returns |-> <<>>])

\* a float that the model does not compute (it needs a root): any value that
\* is not 0
Inexact == [n |-> 1, d |-> 0]

\* the float nan
NaN == [n |-> 0, d |-> 0]

\* "performance_metrics = {}"
NoMetrics == [k \in {} |-> RZero]

\* "(1 + total_return) ** (252 / days) - 1"
AnnualizedReturn(total_return) ==
    IF total_return = RZero THEN RZero ELSE Inexact

\* "returns_series.std() * np.sqrt(252)": the sample standard deviation is nan
\* for fewer than two returns and 0 for equal returns
Volatility(daily_returns) ==
    IF Len(daily_returns) < 2 THEN NaN
    ELSE IF \A k \in 1..Len(daily_returns) : daily_returns[k] = daily_returns[1]
         THEN RZero
         ELSE Inexact

\* "(annualized_return - risk_free_rate) / volatility if volatility > 0 else 0"
SharpeRatio(annualized_return, volatility) ==
    IF volatility = Inexact THEN Inexact ELSE RZero

\* "np.maximum.accumulate(portfolio_values)" at index k
RECURSIVE Peak(_, _)
Peak(values, k) ==
    IF k = 1 THEN values[1].portfolio_value
    ELSE LET before == Peak(values, k - 1)
         IN  IF RGt(values[k].portfolio_value, before)
             THEN values[k].portfolio_value
             ELSE before

\* "np.min(drawdown)" over the first k values
RECURSIVE MinDrawdown(_, _)
MinDrawdown(values, k) ==
    LET peak == Peak(values, k)
        drawdown == RDiv(RSub(values[k].portfolio_value, peak), peak)
    IN  IF k = 1 THEN drawdown
        ELSE RMin(drawdown, MinDrawdown(values, k - 1))

\* "win_rate = len(winning_trades) / total_trades if total_trades > 0 else 0"
WinRate(trade_log) ==
    LET closed == {k \in 1..Len(trade_log) : trade_log[k].action = "sell"}
        winning == {k \in closed : RGt(trade_log[k].profit_loss, RZero)}
    IN  IF closed = {} THEN RZero
        ELSE Rat(Cardinality(winning), Cardinality(closed))

\* _calculate_performance_metrics without benchmark data; profit_loss_ratio is
\* left out
PerformanceMetrics(values, daily_returns, trade_log, initial) ==
    IF values = <<>> THEN NoMetrics
    ELSE LET final_value == values[Len(values)].portfolio_value
             total_return == RDiv(RSub(final_value, initial), initial)
             annualized_return == AnnualizedReturn(total_return)
             volatility == Volatility(daily_returns)
         IN  [total_return |-> total_return,
              annualized_return |-> annualized_return,
              volatility |-> volatility,
              sharpe_ratio |-> SharpeRatio(annualized_return, volatility),
              max_drawdown |-> MinDrawdown(values, Len(values)),
              win_rate |-> WinRate(trade_log),
              total_trades |->
                  Cardinality({k \in 1..Len(trade_log) :
                                  trade_log[k].action = "sell"}),
              benchmark_return |-> RZero,
              alpha |-> total_return,
              final_value |-> final_value]

\* _generate_backtest_report
BacktestReport(timed, daily, metrics) ==
    [initial_capital |-> initial_capital,
     final_capital |-> current_capital,
     performance_metrics |-> metrics,
     trades |-> timed,
     portfolio_values |-> daily.portfolio_values,
     daily_returns |-> daily.daily_returns,
     positions |-> positions]

\* run_backtest after the last trade: valuation, metrics, report
FinishRun ==
    /\ component = "BacktestEngine"
    /\ run.phase = "executing"
    /\ run.all_signals = <<>>
    /\ LET timed == TimedTrades(trades, run.trade_times)
           daily == DailyPortfolioValues(timed, run.stock_data, initial_capital)
           metrics == PerformanceMetrics(daily.portfolio_values,
                                         daily.daily_returns, trades,
                                         initial_capital)
           report == BacktestReport(timed, daily, metrics)
       IN  /\ result' = Returned("run_backtest", report)
           /\ reports' = Append(reports, [args |-> run.args, report |-> report])
    /\ run' = [run EXCEPT !.phase = "done"]
    /\ request' = [call |-> "run_backtest"]
    /\ outcome' = "returned"
    /\ UNCHANGED <<component, initial_capital, bt_vars, pm_vars, steps,
                   risk_actions, current_prices, stored_weights, thread_vars, read_vars>>

(***************************************************************************)
(* RealSimulationEngine: start_simulation, stop_simulation and the         *)
(* trading-loop threads (simulation_engine.py lines 65-130).               *)
(***************************************************************************)

\* the number of start_simulation calls that start a thread
MaxThreads == 3

\* the threads that have not returned from _trading_loop
Alive == {i \in 1..Len(threads) : threads[i] # "exited"}

\* start_simulation: nothing when already running, else the flag is set and
\* a new daemon thread is started on _trading_loop
StartSimulation ==
    /\ component = "RealSimulationEngine"
    /\ caller = "idle"
    /\ request' = [call |-> "start_simulation"]
    /\ IF is_running
       THEN /\ outcome' = "already running"
            /\ UNCHANGED <<is_running, trading_thread, threads>>
       ELSE /\ Len(threads) < MaxThreads
            /\ outcome' = "started"
            /\ is_running' = TRUE
            /\ threads' = Append(threads, "test")
            /\ trading_thread' = Len(threads) + 1
    /\ UNCHANGED <<component, initial_capital, bt_vars, pm_vars, steps, sim_vars,
                   read_vars, stored_weights, run, reports, caller>>

\* stop_simulation up to the join: "self.is_running = False", then the caller
\* waits in "self.trading_thread.join(timeout=10)" if a thread was ever started
StopSimulation ==
    /\ component = "RealSimulationEngine"
    /\ caller = "idle"
    /\ request' = [call |-> "stop_simulation"]
    /\ is_running' = FALSE
    /\ IF trading_thread # 0
       THEN caller' = "joining" /\ outcome' = "joining"
       ELSE caller' = "idle" /\ outcome' = "stopped"
    /\ UNCHANGED <<component, initial_capital, bt_vars, pm_vars, steps, sim_vars,
                   read_vars, stored_weights, run, reports, trading_thread, threads>>

\* "join(timeout=10)" returns because the thread has ended
JoinReturns ==
    /\ component = "RealSimulationEngine"
    /\ caller = "joining"
    /\ threads[trading_thread] = "exited"
    /\ caller' = "idle"
    /\ outcome' = "stopped"
    /\ UNCHANGED <<component, initial_capital, bt_vars, pm_vars, steps, sim_vars,
                   read_vars, stored_weights, run, reports, request, is_running,
                   trading_thread, threads>>

\* "join(timeout=10)" returns after ten seconds with the thread still in its
\* iteration or in its "time.sleep(60)"
JoinTimesOut ==
    /\ component = "RealSimulationEngine"
    /\ caller = "joining"
    /\ threads[trading_thread] \in {"iteration", "sleep"}
    /\ caller' = "idle"
    /\ outcome' = "stopped, thread alive"
    /\ UNCHANGED <<component, initial_capital, bt_vars, pm_vars, steps, sim_vars,
                   read_vars, stored_weights, run, reports, request, is_running,
                   trading_thread, threads>>

\* variant: the loop does not look at the flag
LoopContinues_Always(flag) == TRUE

\* the loop condition "self.is_running"
LoopContinues(flag) == flag

\* "while self.is_running": the thread enters an iteration or returns
LoopTest(i) ==
    /\ component = "RealSimulationEngine"
    /\ threads[i] = "test"
    /\ threads' = [threads EXCEPT ![i] = IF LoopContinues(is_running)
                                         THEN "iteration"
                                         ELSE "exited"]
    /\ UNCHANGED <<component, initial_capital, bt_vars, pm_vars, steps, sim_vars,
                   read_vars, stored_weights, run, reports, request, outcome, is_running,
                   trading_thread, caller>>

\* one iteration of the loop: signals, trades, risk control, snapshot on the
\* shared PositionManager, then "time.sleep(60)" ("time.sleep(10)" after an
\* exception)
LoopIteration(i) ==
    /\ component = "RealSimulationEngine"
    /\ threads[i] = "iteration"
    /\ threads' = [threads EXCEPT ![i] = "sleep"]
    /\ request' = [call |-> "_trading_loop", thread |-> i]
    /\ outcome' = "ledger written"
    /\ UNCHANGED <<component, initial_capital, bt_vars, pm_vars, steps, sim_vars,
                   read_vars, stored_weights, run, reports, is_running, trading_thread,
                   caller>>

\* the sleep ends and the thread is back at the loop test
LoopWakes(i) ==
    /\ component = "RealSimulationEngine"
    /\ threads[i] = "sleep"
    /\ threads' = [threads EXCEPT ![i] = "test"]
    /\ UNCHANGED <<component, initial_capital, bt_vars, pm_vars, steps, sim_vars,
                   read_vars, stored_weights, run, reports, request, outcome, is_running,
                   trading_thread, caller>>

\* a step of any thread that has been started
TradingLoop ==
    \E i \in 1..Len(threads) : LoopTest(i) \/ LoopIteration(i) \/ LoopWakes(i)

(***************************************************************************)
(* The same fills handed to a BacktestEngine (default rates) and to a      *)
(* PositionManager side by side.                                           *)
(***************************************************************************)

\* the fills handed to both ledgers: whole lots
PairedFills ==
    [symbol : Symbols, signal_type : SignalTypes, price : Prices,
     quantity : {100, 200}]

\* buy_stock as a function of the ledger: its return value, the ledger after
\* it, and the fees in total_cost
PMAfterBuy(c, pos, symbol, shares, price) ==
    LET total_cost == PMTotalCost(shares, price)
    IN  IF PMCashShort(total_cost, c)
        THEN [accepted |-> FALSE, cash |-> c, positions |-> pos, fees |-> RZero]
        ELSE [accepted |-> TRUE,
              cash |-> RSub(c, total_cost),
              positions |->
                  IF symbol \in DOMAIN pos
                  THEN [pos EXCEPT ![symbol] = PMAddPosition(pos[symbol], shares, price)]
                  ELSE (symbol :> PMNewPosition(shares, price)) @@ pos,
              fees |-> RSub(total_cost, RMul(RInt(shares), price))]

\* sell_stock as a function of the ledger; a clamped sell is not the fill
\* that was asked for
PMAfterSell(c, pos, symbol, shares, price) ==
    IF symbol \notin DOMAIN pos
    THEN [accepted |-> FALSE, cash |-> c, positions |-> pos, fees |-> RZero]
    ELSE LET position == pos[symbol]
             sold == PMSellShares(shares, position.shares)
             remaining_shares == position.shares - sold
             net_income == PMNetIncome(sold, price)
         IN  [accepted |-> shares <= position.shares,
              cash |-> RAdd(c, net_income),
              positions |->
                  IF remaining_shares > 0
                  THEN [pos EXCEPT ![symbol] =
                           PMRemainingPosition(position, remaining_shares, price)]
                  ELSE PMWithout(pos, symbol),
              fees |-> RSub(RMul(RInt(sold), price), net_income)]

\* the fees of a trade record of the engine
RecordFees(record) ==
    IF record.action = "buy" THEN record.commission ELSE record.total_fees

\* one fill executed by the engine and by the manager
FillBoth(signal) ==
    /\ component = "BothLedgers"
    /\ steps < MaxSteps
    /\ steps' = steps + 1
    /\ request' = signal
    /\ IF signal.signal_type = "buy" THEN ExecuteBuy(signal) ELSE ExecuteSell(signal)
    /\ LET pm == IF signal.signal_type = "buy"
                 THEN PMAfterBuy(cash, pm_positions, signal.symbol,
                                 signal.quantity, signal.price)
                 ELSE PMAfterSell(cash, pm_positions, signal.symbol,
                                  signal.quantity, signal.price)
           filled == outcome' \in {"buy_filled", "sell_filled"}
       IN  /\ cash' = pm.cash
           /\ pm_positions' = pm.positions
           /\ result' =
                 Returned("fill",
                     [accepted_by_both |-> filled /\ pm.accepted,
                      backtest_change |-> RSub(current_capital', current_capital),
                      manager_change |-> RSub(pm.cash, cash),
                      backtest_fees |->
                          IF filled THEN RecordFees(trades'[Len(trades')])
                          ELSE RZero,
                      manager_fees |-> pm.fees])
    /\ UNCHANGED <<component, initial_capital, ext_vars, risk_actions,
                   current_prices>>

PairedFill == \E signal \in PairedFills : FillBoth(signal)

(***************************************************************************)
(* PositionManager under two threads: the trading loop inside buy_stock or *)
(* sell_stock, and a status read (get_current_status, which calls          *)
(* get_portfolio_status) on another thread.  Neither method takes a lock;  *)
(* a thread switch can fall between any two statements.  steps counts the  *)
(* writes of self.positions.                                               *)
(***************************************************************************)

\* share counts of the fills made while a reader is about
FillShares == {100, 200}

\* no ledger call is in progress
IdleWriter == [pc |-> "idle"]

\* no status read is in progress and none has returned
IdleReader == [pc |-> "idle", returned |-> FALSE]

\* the number of completed "self.cash -= ..." / "self.cash += ..." statements
CashWrites == IF writer.pc = "idle" THEN steps ELSE steps - 1

\* buy_stock up to and including "self.positions[symbol] = Position(...)"
BeginBuy(symbol, shares, price) ==
    LET total_cost == PMTotalCost(shares, price)
    IN  /\ component = "PositionManager"
        /\ writer.pc = "idle"
        /\ steps < MaxSteps
        /\ request' = [call |-> "buy_stock", symbol |-> symbol,
                       shares |-> shares, price |-> price]
        /\ IF PMCashShort(total_cost, cash)
           THEN /\ outcome' = "buy_stock_false"
                /\ UNCHANGED <<pm_positions, writer, steps>>
           ELSE /\ pm_positions' =
                      IF symbol \in DOMAIN pm_positions
                      THEN [pm_positions EXCEPT ![symbol] =
                               PMAddPosition(pm_positions[symbol], shares, price)]
                      ELSE (symbol :> PMNewPosition(shares, price)) @@ pm_positions
                /\ writer' = [pc |-> "cash", call |-> "buy_stock",
                              amount |-> RSub(RZero, total_cost)]
                /\ steps' = steps + 1
                /\ outcome' = "positions written"
        /\ UNCHANGED <<component, initial_capital, bt_vars, cash, sim_vars,
                       stored_weights, run, reports, thread_vars, reader>>

\* sell_stock up to and including the write or the del of the position
BeginSell(symbol, shares, price) ==
    /\ component = "PositionManager"
    /\ writer.pc = "idle"
    /\ steps < MaxSteps
    /\ request' = [call |-> "sell_stock", symbol |-> symbol,
                   shares |-> shares, price |-> price]
    /\ IF symbol \notin DOMAIN pm_positions
       THEN /\ outcome' = "sell_stock_false"
            /\ UNCHANGED <<pm_positions, writer, steps>>
       ELSE LET position == pm_positions[symbol]
                sold == PMSellShares(shares, position.shares)
                remaining_shares == position.shares - sold
            IN  /\ pm_positions' =
                      IF remaining_shares > 0
                      THEN [pm_positions EXCEPT ![symbol] =
                               PMRemainingPosition(position, remaining_shares, price)]
                      ELSE PMWithout(pm_positions, symbol)
                /\ writer' = [pc |-> "cash", call |-> "sell_stock",
                              amount |-> PMNetIncome(sold, price)]
                /\ steps' = steps + 1
                /\ outcome' = "positions written"
    /\ UNCHANGED <<component, initial_capital, bt_vars, cash, sim_vars,
                   stored_weights, run, reports, thread_vars, reader>>

\* the trading loop enters buy_stock or sell_stock
BeginFill ==
    \E symbol \in Symbols, shares \in FillShares, price \in Prices :
        BeginBuy(symbol, shares, price) \/ BeginSell(symbol, shares, price)

\* "self.cash -= total_cost" / "self.cash += net_income", and the return
WriteCash ==
    /\ component = "PositionManager"
    /\ writer.pc = "cash"
    /\ cash' = RAdd(cash, writer.amount)
    /\ writer' = IdleWriter
    /\ outcome' = IF writer.call = "buy_stock" THEN "buy_stock_true"
                  ELSE "sell_stock_true"
    /\ UNCHANGED <<component, initial_capital, bt_vars, pm_positions, steps,
                   sim_vars, request, stored_weights, run, reports, thread_vars,
                   reader>>

\* get_portfolio_status, "market_value = sum(pos.market_value for ...)"
ReadPositions ==
    /\ component = "PositionManager"
    /\ reader.pc = "idle"
    /\ reader' = [pc |-> "cash", returned |-> FALSE,
                  market_value |-> MarketValue(pm_positions),
                  positions_version |-> steps]
    /\ UNCHANGED <<component, initial_capital, bt_vars, pm_vars, steps, sim_vars,
                   request, outcome, stored_weights, run, reports, thread_vars,
                   writer>>

\* get_portfolio_status, "total_value = self.cash + market_value", and the
\* PortfolioStatus it returns
ReadCash ==
    /\ component = "PositionManager"
    /\ reader.pc = "cash"
    /\ reader' = [pc |-> "idle", returned |-> TRUE,
                  total_value |-> RAdd(cash, reader.market_value),
                  cash |-> cash,
                  market_value |-> reader.market_value,
                  positions_version |-> reader.positions_version,
                  cash_version |-> CashWrites]
    /\ UNCHANGED <<component, initial_capital, bt_vars, pm_vars, steps, sim_vars,
                   request, outcome, stored_weights, run, reports, thread_vars,
                   writer>>

(***************************************************************************)
(* Specification                                                           *)
(* The two ledgers are separate objects that share no state: a run         *)
(* exercises one of them, constructed with one of the initial capitals.    *)
(***************************************************************************)
Empty == [s \in {} |-> EmptyPosition]

\* the empty price map
NoPrices == [s \in {} |-> RZero]

\* no combiner has been constructed
NoWeights == [s \in {} |-> RZero]

\* RealSimulationEngine.__init__: "is_running = False", "trading_thread = None"
ThreadsInit ==
    /\ is_running = FALSE
    /\ trading_thread = 0
    /\ threads = <<>>
    /\ caller = "idle"

ReadInit == writer = IdleWriter /\ reader = IdleReader

ExtInit ==
    /\ stored_weights = NoWeights
    /\ run = IdleRun
    /\ reports = <<>>
    /\ ThreadsInit
    /\ ReadInit

Init ==
    /\ component \in {"BacktestEngine", "PositionManager"}
    /\ initial_capital \in InitialCapitals
    /\ current_capital = initial_capital
    /\ positions = Empty
    /\ trades = <<>>
    /\ cash = initial_capital
    /\ pm_positions = Empty
    /\ request = [call |-> "none"]
    /\ outcome = "none"
    /\ steps = 0
    /\ result = NoResult
    /\ risk_actions = {}
    /\ current_prices = NoPrices
    /\ ExtInit

Next == ExecuteTrade \/ BuyStock \/ SellStock

Spec == Init /\ [][Next]_vars

\* a PositionManager whose methods are called in any order, the engine's
\* sized buy among them
QueryInit ==
    /\ component = "PositionManager"
    /\ initial_capital \in QueryCapitals
    /\ current_capital = initial_capital
    /\ positions = Empty
    /\ trades = <<>>
    /\ cash = initial_capital
    /\ pm_positions = Empty
    /\ request = [call |-> "none"]
    /\ outcome = "none"
    /\ steps = 0
    /\ result = NoResult
    /\ risk_actions = {}
    /\ current_prices = NoPrices
    /\ ExtInit

QueryNext ==
    BuyStock \/ SellStock \/ ExecuteBuyOrder(QueryStrengths, Prices) \/ CheckRiskControl

QuerySpec == QueryInit /\ [][QueryNext]_vars

\* the PositionManager owned by a running RealSimulationEngine: only the
\* trading loop touches it
LiveInit ==
    /\ component = "PositionManager"
    /\ initial_capital \in LiveCapitals
    /\ current_capital = initial_capital
    /\ positions = Empty
    /\ trades = <<>>
    /\ cash = initial_capital
    /\ pm_positions = Empty
    /\ request = [call |-> "none"]
    /\ outcome = "none"
    /\ steps = 0
    /\ result = NoResult
    /\ risk_actions = {}
    /\ current_prices = NoPrices
    /\ ExtInit

LiveNext ==
    ExecuteBuyOrder(Strengths, LivePrices) \/ ExecuteSellOrder \/ RiskControl \/ RiskSell

LiveSpec == LiveInit /\ [][LiveNext]_vars

\* the simulation engine's threads: the ledger itself is left to LiveSpec
ThreadInit ==
    /\ component = "RealSimulationEngine"
    /\ initial_capital \in LiveCapitals
    /\ current_capital = initial_capital
    /\ positions = Empty
    /\ trades = <<>>
    /\ cash = initial_capital
    /\ pm_positions = Empty
    /\ request = [call |-> "none"]
    /\ outcome = "none"
    /\ steps = 0
    /\ result = NoResult
    /\ risk_actions = {}
    /\ current_prices = NoPrices
    /\ ExtInit

ReadNext == BeginFill \/ WriteCash \/ ReadPositions \/ ReadCash

\* a live PositionManager with one writer and one reader
ReadSpec == LiveInit /\ [][ReadNext]_vars

ThreadNext ==
    StartSimulation \/ StopSimulation \/ JoinReturns \/ JoinTimesOut \/ TradingLoop

ThreadSpec == ThreadInit /\ [][ThreadNext]_vars

\* every started thread is scheduled again and again and its sleep ends; a
\* join returns when its thread has ended or its ten seconds are over
ThreadFairness ==
    /\ \A i \in 1..MaxThreads :
          /\ WF_vars(i <= Len(threads) /\ LoopTest(i))
          /\ WF_vars(i <= Len(threads) /\ LoopIteration(i))
          /\ WF_vars(i <= Len(threads) /\ LoopWakes(i))
    /\ WF_vars(JoinReturns)
    /\ WF_vars(JoinTimesOut)

ThreadFairSpec == ThreadSpec /\ ThreadFairness

\* the signal combiners: a run is one call, on any of the inputs above
CombineInit ==
    /\ component = "SignalCombiner"
    /\ initial_capital \in LiveCapitals
    /\ current_capital = initial_capital
    /\ positions = Empty
    /\ trades = <<>>
    /\ cash = initial_capital
    /\ pm_positions = Empty
    /\ request = [call |-> "none"]
    /\ outcome = "none"
    /\ steps = 0
    /\ result = NoResult
    /\ risk_actions = {}
    /\ current_prices = NoPrices
    /\ ExtInit

CombineNext ==
    \/ CombineWeightedAverage
    \/ CombineMajorityVote
    \/ CombineUnanimous
    \/ MultiCombine
    \/ FilterSignals

CombineSpec == CombineInit /\ [][CombineNext]_vars

\* the ledgers of a run that exercises another object: constructed, never used
IdleLedgers ==
    /\ initial_capital \in LiveCapitals
    /\ current_capital = initial_capital
    /\ positions = Empty
    /\ trades = <<>>
    /\ cash = initial_capital
    /\ pm_positions = Empty
    /\ risk_actions = {}
    /\ current_prices = NoPrices

\* a MultiStrategy or a StrategyManager after construction, whose weights are
\* then updated any number of times
WeightInit ==
    /\ component \in {"MultiStrategy", "StrategyManager"}
    /\ IdleLedgers
    /\ request = [call |-> "none"]
    /\ outcome = "none"
    /\ steps = 0
    /\ result = NoResult
    /\ stored_weights \in
          IF component = "MultiStrategy"
          THEN {NormalizedWeights(w) : w \in SuppliedWeights \cup ToleratedWeights}
          ELSE WeightConfigs \cup PartialWeightConfigs
    /\ run = IdleRun
    /\ reports = <<>>
    /\ ThreadsInit
    /\ ReadInit

\* a BacktestEngine on which run_backtest is called once
RunInit ==
    /\ component = "BacktestEngine"
    /\ IdleLedgers
    /\ request = [call |-> "none"]
    /\ outcome = "none"
    /\ steps = 0
    /\ result = NoResult
    /\ ExtInit

RunNext == StartRun(RunInputs, 1) \/ ExecuteQueued \/ FinishRun

RunSpec == RunInit /\ [][RunNext]_vars

\* a BacktestEngine on which run_backtest is called again and again
RerunNext == StartRun(RerunInputs, MaxRuns) \/ ExecuteQueued \/ FinishRun

RerunSpec == RunInit /\ [][RerunNext]_vars

\* an engine and a manager constructed with the same capital
PairInit ==
    /\ component = "BothLedgers"
    /\ IdleLedgers
    /\ request = [call |-> "none"]
    /\ outcome = "none"
    /\ steps = 0
    /\ result = NoResult
    /\ ExtInit

PairSpec == PairInit /\ [][PairedFill]_vars

WeightNext == UpdateWeights \/ UpdateStrategyWeights

WeightSpec == WeightInit /\ [][WeightNext]_vars

(***************************************************************************)
(* Properties                                                              *)
(***************************************************************************)
BT == component = "BacktestEngine"

PM == component = "PositionManager"

\* this step is BacktestEngine executing the signal request'
BTStep == BT /\ steps' = steps + 1

\* this step is a PositionManager call, with the arguments request'
PMCall(name) == PM /\ steps' = steps + 1 /\ request'.call = name

\* held quantity of a symbol in the BacktestEngine ledger
Held(s) == IF s \in DOMAIN positions THEN positions[s].quantity ELSE 0

\* held shares of a symbol in the PositionManager ledger
PMHeld(s) == IF s \in DOMAIN pm_positions THEN pm_positions[s].shares ELSE 0

\* the same quantities after the step
HeldAfter(s) == IF s \in DOMAIN positions' THEN positions'[s].quantity ELSE 0

PMHeldAfter(s) ==
    IF s \in DOMAIN pm_positions' THEN pm_positions'[s].shares ELSE 0

Last(log) == log[Len(log)]

\* cash after the first k records of a trade log, from the records alone
RECURSIVE LedgerCash(_, _)
LedgerCash(log, k) ==
    IF k = 0 THEN initial_capital
    ELSE IF log[k].action = "buy"
         THEN RSub(LedgerCash(log, k - 1), log[k].total_cost)
         ELSE RAdd(LedgerCash(log, k - 1), log[k].net_amount)

\* C1: BacktestEngine cash conservation: current_capital equals
\* initial_capital minus the total_cost of every buy record plus the
\* net_amount of every sell record, where a buy's total_cost is amount +
\* commission (no stamp tax) and a sell's net_amount is amount - commission -
\* stamp_tax; every record's capital_after is the cash right after that fill.
C1_CashConservation ==
    BT =>
      /\ current_capital = LedgerCash(trades, Len(trades))
      /\ \A i \in 1..Len(trades) :
            LET r == trades[i]
                amount == RMul(r.price, RInt(r.quantity))
                fee == RMul(amount, Rat(3, 10000))
            IN  /\ r.capital_after = LedgerCash(trades, i)
                /\ r.amount = amount
                /\ r.commission = fee
                /\ r.action = "buy" =>
                      /\ r.total_cost = RAdd(amount, fee)
                      /\ "stamp_tax" \notin DOMAIN r
                /\ r.action = "sell" =>
                      r.net_amount =
                          RSub(RSub(amount, fee), RMul(amount, Rat(1, 1000)))

C1_Witness ==
    /\ BT
    /\ Len(trades) = 3
    /\ \E i, j \in 1..3 : trades[i].action = "buy" /\ trades[j].action = "sell"

\* C2: cash is never negative in either ledger: current_capital >= 0 after
\* every signal executed by BacktestEngine (downsized buys included) and
\* cash >= 0 after every PositionManager.buy_stock / sell_stock call.
C2_NoNegativeCash ==
    /\ RGe(current_capital, RZero)
    /\ RGe(cash, RZero)

\* a downsized buy that used up nearly all the cash
C2_Witness ==
    /\ outcome = "buy_adjusted"
    /\ RLt(current_capital, RMul(initial_capital, Rat(6, 100)))

\* C3: no oversell: in both ledgers the held quantity of every symbol is
\* >= 0 after any sequence of fills, and a SELL fills exactly
\* min(requested, held).
C3_Step ==
    /\ \A s \in Symbols : HeldAfter(s) >= 0 /\ PMHeldAfter(s) >= 0
    /\ (BTStep /\ request'.signal_type = "sell") =>
             LET sig == request'
                 held == Held(sig.symbol)
                 fill == IF sig.quantity <= held THEN sig.quantity ELSE held
             IN  /\ HeldAfter(sig.symbol) = held - fill
                 /\ fill > 0 =>
                       /\ Len(trades') = Len(trades) + 1
                       /\ Last(trades').action = "sell"
                       /\ Last(trades').quantity = fill
    /\ PMCall("sell_stock") =>
             LET s == request'.symbol
                 n == request'.shares
                 p == request'.price
                 held == PMHeld(s)
                 fill == IF n <= held THEN n ELSE held
             IN  /\ PMHeldAfter(s) = held - fill
                 /\ cash' = RAdd(cash,
                                 RMul(RMul(RInt(fill), p), Rat(9987, 10000)))

C3_NoOversell == [][C3_Step]_vars

\* a sell that asked for more than was held, after which nothing is held
C3_Witness ==
    /\ outcome = "sell_clamped"
    /\ Len(trades) >= 2
    /\ Held(Last(trades).symbol) = 0
    /\ Last(trades).quantity > 0

\* C4: every Trade record appended by BacktestEngine has a quantity that is
\* an exact multiple of min_trade_unit.
C4_LotRounding ==
    \A i \in 1..Len(trades) : trades[i].quantity % min_trade_unit = 0

\* C5: with initial capital 100,000, commission 0.03% and stamp tax 0.1%,
\* BUY 1,000 @ 10.00 leaves cash 89,997.00 and average cost 10.00; the
\* following SELL 1,000 @ 11.00 records a realized P&L of 985.70 and leaves
\* cash 100,982.70 and zero holdings.
C5_Bought ==
    /\ BT
    /\ initial_capital = RInt(100000)
    /\ Len(trades) >= 1
    /\ trades[1].action = "buy"
    /\ trades[1].quantity = 1000
    /\ trades[1].price = RInt(10)

C5_Sold ==
    /\ C5_Bought
    /\ Len(trades) = 2
    /\ trades[2].action = "sell"
    /\ trades[2].symbol = trades[1].symbol
    /\ trades[2].quantity = 1000
    /\ trades[2].price = RInt(11)

C5_RoundTrip ==
    /\ (C5_Bought /\ Len(trades) = 1) =>
          /\ current_capital = RInt(89997)
          /\ positions[trades[1].symbol].avg_price = RInt(10)
    /\ C5_Sold =>
          /\ trades[1].capital_after = RInt(89997)
          /\ trades[2].profit_loss = Rat(98570, 100)
          /\ current_capital = Rat(10098270, 100)
          /\ Held(trades[1].symbol) = 0

C5_Witness == C5_Sold

\* a BUY signal whose amount + commission exceeds the current cash
Unaffordable(sig) ==
    /\ sig.signal_type = "buy"
    /\ RGt(RMul(RMul(sig.price, RInt(sig.quantity)), Rat(10003, 10000)),
           current_capital)

\* m is floor(0.95 * cash / (price * 1.0003)) rounded down to a multiple of
\* the lot: the largest multiple of the lot that 95% of the cash pays for
IsDownsized(m, sig) ==
    LET budget == RMul(current_capital, Rat(95, 100))
        unit_cost == RMul(sig.price, Rat(10003, 10000))
    IN  /\ m >= 0
        /\ m % 100 = 0
        /\ RLe(RMul(RInt(m), unit_cost), budget)
        /\ RGt(RMul(RInt(m + 100), unit_cost), budget)

\* C6: when a BUY's amount + commission exceeds current cash, the engine
\* fills floor(0.95 * cash / (price * (1 + commission_rate))) rounded down to
\* a multiple of min_trade_unit (when that is at least one lot), and the
\* record's quantity, amount, commission and the cash deduction are all
\* computed from the downsized quantity.
C6_Step ==
    LET sig == request' IN
       (BTStep /\ Unaffordable(sig)) =>
          \/ IsDownsized(0, sig)
          \/ /\ Len(trades') = Len(trades) + 1
             /\ LET r == Last(trades')
                    amount == RMul(sig.price, RInt(r.quantity))
                    fee == RMul(amount, Rat(3, 10000))
                IN  /\ r.action = "buy"
                    /\ r.symbol = sig.symbol
                    /\ IsDownsized(r.quantity, sig)
                    /\ r.amount = amount
                    /\ r.commission = fee
                    /\ r.total_cost = RAdd(amount, fee)
                    /\ current_capital' = RSub(current_capital, RAdd(amount, fee))
                    /\ HeldAfter(sig.symbol) = Held(sig.symbol) + r.quantity

C6_Downsizing == [][C6_Step]_vars

\* a downsized buy went through as the second fill
C6_Witness ==
    /\ outcome = "buy_adjusted"
    /\ Len(trades) >= 2
    /\ Last(trades).quantity >= 100
    /\ Last(trades).quantity < 10000

\* C7: when the downsized quantity of an unaffordable BUY is below one lot,
\* the signal is dropped without raising, and cash, the held quantity of
\* every symbol and the trade log are unchanged.
C7_Step ==
    LET sig == request' IN
       (BTStep /\ Unaffordable(sig) /\ IsDownsized(0, sig)) =>
          /\ outcome' = "buy_dropped"
          /\ current_capital' = current_capital
          /\ trades' = trades
          /\ \A s \in Symbols : HeldAfter(s) = Held(s)

C7_DroppedBuy == [][C7_Step]_vars

\* cash 1,000 and a buy that even downsized does not reach one lot
C7_Witness ==
    /\ outcome = "buy_dropped"
    /\ current_capital = RInt(1000)
    /\ trades = <<>>

\* C8: after every filled BUY in either ledger the position's average cost
\* is (old_qty * old_avg + fill_qty * price) / (old_qty + fill_qty).
WeightedAverage(old_qty, old_avg, fill_qty, price) ==
    RDiv(RAdd(RMul(RInt(old_qty), old_avg), RMul(RInt(fill_qty), price)),
         RInt(old_qty + fill_qty))

C8_Step ==
    /\ (/\ BTStep
        /\ request'.signal_type = "buy"
        /\ Len(trades') = Len(trades) + 1) =>
             LET sig == request'
                 old_qty == Held(sig.symbol)
                 old_avg == IF sig.symbol \in DOMAIN positions
                            THEN positions[sig.symbol].avg_price ELSE RZero
                 fill_qty == Last(trades').quantity
             IN  /\ HeldAfter(sig.symbol) = old_qty + fill_qty
                 /\ positions'[sig.symbol].avg_price =
                       WeightedAverage(old_qty, old_avg, fill_qty, sig.price)
    /\ (/\ PMCall("buy_stock")
        /\ outcome' = "buy_stock_true"
        /\ request'.shares > 0) =>
             LET s == request'.symbol
                 n == request'.shares
                 p == request'.price
                 old_qty == PMHeld(s)
                 old_avg == IF s \in DOMAIN pm_positions
                            THEN pm_positions[s].avg_cost ELSE RZero
             IN  /\ PMHeldAfter(s) = old_qty + n
                 /\ pm_positions'[s].avg_cost =
                       WeightedAverage(old_qty, old_avg, n, p)

C8_WeightedAverageCost == [][C8_Step]_vars

\* a buy at another price after a buy and a partial sell of the same symbol
C8_Witness ==
    /\ BT
    /\ Len(trades) = 3
    /\ trades[1].action = "buy"
    /\ trades[2].action = "sell"
    /\ trades[3].action = "buy"
    /\ trades[2].symbol = trades[1].symbol
    /\ trades[3].symbol = trades[1].symbol
    /\ trades[2].quantity < trades[1].quantity
    /\ trades[3].price # trades[1].price
    /\ trades[3].quantity > 0

\* C9: every sell record has commission = amount * commission_rate,
\* stamp_tax = amount * stamp_tax_rate, net_amount = amount - commission -
\* stamp_tax and profit_loss = amount - (average cost at the time of the
\* sell * sold quantity) - commission - stamp_tax; buy records carry
\* commission only and no stamp tax.
C9_Step ==
    (BTStep /\ Len(trades') = Len(trades) + 1) =>
          LET sig == request'
              r == Last(trades')
              amount == RMul(sig.price, RInt(r.quantity))
              fee == RMul(amount, Rat(3, 10000))
              tax == RMul(amount, Rat(1, 1000))
          IN  /\ r.amount = amount
              /\ r.commission = fee
              /\ r.action = "sell" =>
                    /\ r.stamp_tax = tax
                    /\ r.net_amount = RSub(RSub(amount, fee), tax)
                    /\ r.profit_loss =
                          RSub(RSub(RSub(amount,
                                         RMul(positions[sig.symbol].avg_price,
                                              RInt(r.quantity))),
                                    fee),
                               tax)
              /\ r.action = "buy" =>
                    /\ DOMAIN r \cap {"stamp_tax", "total_fees", "profit_loss"} = {}
                    /\ r.total_cost = RAdd(amount, fee)
                    /\ current_capital' = RSub(current_capital, RAdd(amount, fee))

C9_SellFeesAndPnl == [][C9_Step]_vars

\* a partial sell at a loss out of a position bought at two prices
C9_Witness ==
    /\ BT
    /\ Len(trades) = 3
    /\ trades[1].action = "buy"
    /\ trades[2].action = "buy"
    /\ trades[2].symbol = trades[1].symbol
    /\ trades[2].price # trades[1].price
    /\ trades[3].action = "sell"
    /\ trades[3].symbol = trades[1].symbol
    /\ Held(trades[3].symbol) > 0
    /\ trades[3].profit_loss.n < 0

\* C10: a SELL signal for a symbol with zero held quantity is a no-op: no
\* exception, no Trade record appended, cash and all held quantities
\* unchanged.
C10_Step ==
    LET sig == request' IN
       (/\ BTStep
        /\ sig.signal_type = "sell"
        /\ Held(sig.symbol) = 0) =>
          /\ outcome' = "sell_no_position"
          /\ trades' = trades
          /\ current_capital' = current_capital
          /\ \A s \in Symbols : HeldAfter(s) = Held(s)

C10_SellWithoutPosition == [][C10_Step]_vars

\* a sell arriving after a round trip has closed the only position
C10_Witness ==
    /\ outcome = "sell_no_position"
    /\ Len(trades) = 2
    /\ \A s \in Symbols : Held(s) = 0

\* the last buy_stock / sell_stock call returned True
PMReturnedTrue ==
    outcome \in {"buy_stock_true", "sell_stock_true", "sell_stock_clamped"}

\* C11: buy_stock returns False without raising whenever
\* shares * price * (1 + fee) > cash, leaving cash and the positions map
\* exactly unchanged; otherwise it returns True and deducts exactly
\* shares * price * (1 + fee) from cash.
C11_Step ==
    PMCall("buy_stock") =>
        LET n == request'.shares
            p == request'.price
            cost == RMul(RMul(RInt(n), p), Rat(1001, 1000))
        IN  IF RGt(cost, cash)
            THEN /\ outcome' = "buy_stock_false"
                 /\ UNCHANGED pm_vars
            ELSE /\ PMReturnedTrue'
                 /\ cash' = RSub(cash, cost)

C11_BuyStockContract == [][C11_Step]_vars

\* C12: sell_stock fails (returns False, ledger unchanged) only when the
\* symbol has no position; otherwise it sells min(shares, held), credits
\* gross - commission - stamp tax to cash, keeps the average cost of a
\* remaining position, and deletes the position exactly when no share remains.
C12_Step ==
    PMCall("sell_stock") =>
        LET s == request'.symbol
            n == request'.shares
            p == request'.price
        IN  IF s \notin DOMAIN pm_positions
            THEN /\ ~PMReturnedTrue'
                 /\ UNCHANGED pm_vars
            ELSE LET held == pm_positions[s].shares
                     fill == IF n <= held THEN n ELSE held
                     gross == RMul(RInt(fill), p)
                     net == RSub(RSub(gross, RMul(gross, Rat(3, 10000))),
                                 RMul(gross, Rat(1, 1000)))
                 IN  /\ PMReturnedTrue'
                     /\ cash' = RAdd(cash, net)
                     /\ (held - fill = 0) <=> (s \notin DOMAIN pm_positions')
                     /\ s \in DOMAIN pm_positions' =>
                           /\ pm_positions'[s].shares = held - fill
                           /\ pm_positions'[s].avg_cost = pm_positions[s].avg_cost
                     /\ \A t \in DOMAIN pm_positions \ {s} :
                           /\ t \in DOMAIN pm_positions'
                           /\ pm_positions'[t] = pm_positions[t]

C12_SellStockContract == [][C12_Step]_vars

\* a partial sale at a price other than the average cost: 950 shares remain
C12_Witness ==
    /\ PM
    /\ request.call = "sell_stock"
    /\ outcome = "sell_stock_true"
    /\ request.symbol \in DOMAIN pm_positions
    /\ pm_positions[request.symbol].shares = 950
    /\ pm_positions[request.symbol].avg_cost # request.price

\* check_risk_control has just returned for the price map request.prices
RiskChecked == request.call = "check_risk_control"

\* the actions the returned list holds for one symbol
ActionsFor(s) == {a \in result.value : a[1] = s}

\* unrealized pct of a held, priced symbol: (price - avg_cost) / avg_cost
UnrealizedPct(s) ==
    RDiv(RSub(request.prices[s], pm_positions[s].avg_cost),
         pm_positions[s].avg_cost)

\* C13 as stated: for every held position whose symbol has a current price,
\* pct <= -stop_loss_pct gives a sell action for all held shares,
\* pct >= take_profit_pct gives a sell action for half the held shares
\* (floor), and any other pct gives no action for the symbol.
C13_AsStated ==
    RiskChecked =>
        \A s \in DOMAIN pm_positions \cap DOMAIN request.prices :
            LET held == pm_positions[s].shares
            IN  IF RLe(UnrealizedPct(s), Rat(-8, 100))
                THEN <<s, "sell", held>> \in ActionsFor(s)
                ELSE IF RGe(UnrealizedPct(s), Rat(15, 100))
                     THEN <<s, "sell", held \div 2>> \in ActionsFor(s)
                     ELSE ActionsFor(s) = {}

\* C13 (amended): as above, except that taking profit gives the sell action
\* for floor(held / 2) shares only when that is at least one share; for a
\* position of fewer than two shares it gives no action.  The list holds
\* nothing else.
C13_RiskThresholds ==
    RiskChecked =>
        /\ \A s \in DOMAIN pm_positions \cap DOMAIN request.prices :
              LET held == pm_positions[s].shares
              IN  IF RLe(UnrealizedPct(s), Rat(-8, 100))
                  THEN ActionsFor(s) = {<<s, "sell", held>>}
                  ELSE IF RGe(UnrealizedPct(s), Rat(15, 100)) /\ held \div 2 > 0
                       THEN ActionsFor(s) = {<<s, "sell", held \div 2>>}
                       ELSE ActionsFor(s) = {}
        /\ \A a \in result.value :
              a[1] \in DOMAIN pm_positions \cap DOMAIN request.prices

\* average cost 10.00 priced at 9.15 (-8.5%): all 50 shares are to be sold
C13_Witness ==
    /\ RiskChecked
    /\ \E s \in DOMAIN pm_positions \cap DOMAIN request.prices :
          /\ pm_positions[s].avg_cost = RInt(10)
          /\ pm_positions[s].shares = 50
          /\ request.prices[s] = Rat(915, 100)
          /\ <<s, "sell", 50>> \in result.value

\* C14: check_risk_control is pure with respect to the ledger: whatever the
\* ledger and the price map, the call leaves cash and every position (shares,
\* avg_cost, current_price, market_value) unchanged; while its actions are
\* pending the ledger changes only through the caller's sell_stock calls.
C14_Step ==
    /\ (steps' = steps + 1 /\ request'.call = "check_risk_control") =>
          /\ cash' = cash
          /\ DOMAIN pm_positions' = DOMAIN pm_positions
          /\ \A s \in DOMAIN pm_positions :
                /\ pm_positions'[s].shares = pm_positions[s].shares
                /\ pm_positions'[s].avg_cost = pm_positions[s].avg_cost
                /\ pm_positions'[s].current_price = pm_positions[s].current_price
                /\ pm_positions'[s].market_value = pm_positions[s].market_value
    /\ (risk_actions # {} /\ pm_vars' # pm_vars) =>
          /\ request'.call = "sell_stock"
          /\ <<request'.symbol, "sell", request'.shares>> \in risk_actions

C14_RiskCheckIsPure == [][C14_Step]_vars

\* the check has just asked for a sale at a new price and the ledger still
\* holds the whole position at its old price
C14_Witness ==
    /\ RiskChecked
    /\ \E a \in risk_actions :
          /\ a[1] \in DOMAIN pm_positions
          /\ pm_positions[a[1]].shares >= a[3]
          /\ a[3] > 0
          /\ pm_positions[a[1]].current_price # current_prices[a[1]]

\* C15: no position averaging on the live path: calculate_position_size
\* returns 0 whenever the symbol already has a position, so in every step of
\* the live loop the share count of a held symbol does not increase, and a
\* BUY is filled only for a symbol that has no position (after a close: one
\* that was sold out and removed).
C15_Step ==
    /\ \A s \in DOMAIN pm_positions : PMHeldAfter(s) <= pm_positions[s].shares
    /\ (steps' = steps + 1 /\ result'.of = "calculate_position_size"
           /\ request'.symbol \in DOMAIN pm_positions) =>
          /\ result'.value = 0
          /\ request'.call = "calculate_position_size"
          /\ UNCHANGED pm_vars
    /\ (steps' = steps + 1 /\ request'.call = "buy_stock") =>
          /\ request'.symbol \notin DOMAIN pm_positions
          /\ \A s \in DOMAIN pm_positions : pm_positions'[s] = pm_positions[s]

C15_NoAveraging == [][C15_Step]_vars

\* a BUY for a held symbol was sized 0 although the same BUY for the other
\* symbol would have been filled
C15_Witness ==
    /\ request.call = "calculate_position_size"
    /\ result.value = 0
    /\ request.symbol \in DOMAIN pm_positions
    /\ pm_positions[request.symbol].shares > 0
    /\ \E t \in Symbols \ DOMAIN pm_positions :
          calculate_position_size(t, RInt(1), request.price) > 0

\* SUM(market_value) >= f * (cash + SUM(market_value)) for a ledger of
\* positive total value: the invested fraction is at least f
InvestedAtLeast(c, pos, f) ==
    /\ RGt(RAdd(c, MarketValue(pos)), RZero)
    /\ RGe(MarketValue(pos), RMul(f, RAdd(c, MarketValue(pos))))

\* the invested fraction is at most f
InvestedAtMost(c, pos, f) ==
    RLe(MarketValue(pos), RMul(f, RAdd(c, MarketValue(pos))))

\* this step sized a BUY with calculate_position_size
Sized == steps' = steps + 1 /\ result'.of = "calculate_position_size"

\* C16: total-position ceiling: when calculate_position_size returns n > 0
\* and buy_stock(symbol, n, price) is then executed, the invested fraction
\* SUM(market_value) / (cash + SUM(market_value)) after the buy is at most
\* max_total_position (0.90); and calculate_position_size returns 0 when that
\* fraction is already >= max_total_position.
C16_Step ==
    /\ (Sized /\ result'.value > 0) =>
          /\ request' = [call |-> "buy_stock", symbol |-> request'.symbol,
                         shares |-> result'.value, price |-> request'.price]
          /\ outcome' = "buy_stock_true"
          /\ PMHeldAfter(request'.symbol) = result'.value
          /\ InvestedAtMost(cash', pm_positions', Rat(90, 100))
    /\ (Sized /\ InvestedAtLeast(cash, pm_positions, Rat(90, 100))) =>
          /\ result'.value = 0
          /\ UNCHANGED pm_vars

C16_PositionCeiling == [][C16_Step]_vars

\* a BUY for a symbol that is not held was sized 0 because 90% or more of the
\* portfolio is invested, although the cash would have paid for a share
C16_Witness ==
    /\ request.call = "calculate_position_size"
    /\ result.value = 0
    /\ request.symbol \notin DOMAIN pm_positions
    /\ InvestedAtLeast(cash, pm_positions, Rat(90, 100))
    /\ RGe(RMul(cash, Rat(9, 40)), RMul(request.price, Rat(1001, 1000)))

\* C17: calculate_position_size always returns a lot-rounded share count: a
\* multiple of the trading lot of 100 shares, hence 0 when fewer than 100
\* shares are affordable.
C17_LotRoundedSize ==
    result.of = "calculate_position_size" => result.value % 100 = 0

\* the call was StrategyManager's combiner under the given policy, on at least
\* one signal
Combined(policy) ==
    /\ request.call = "generate_combined_signals"
    /\ request.signal_combination = policy
    /\ DOMAIN request.signals # {}

\* the call was MultiStrategy's combiner, on at least one signal
MultiCombined ==
    /\ request.call = "MultiStrategy._combine_signals"
    /\ DOMAIN request.signals # {}

\* net = SUM(weight_i * strength_i), BUY positive and SELL negative, over the
\* weights of the strategies that produced a signal, normalised to sum to 1
ManagerNet == NetSignal(request.signals, request.strategy_weights)

\* the same for MultiStrategy, whose member signals carry no strength: each
\* counts with its full weight
MultiNet ==
    RSub(SumWeights(request.weights,
                    {m \in DOMAIN request.signals : request.signals[m] = "buy"}),
         SumWeights(request.weights,
                    {m \in DOMAIN request.signals : request.signals[m] = "sell"}))

\* the rule of C18 for a net, a threshold and the set of signals handed back
EmissionRule(net, threshold, emitted) ==
    /\ (emitted # {}) <=> RGe(RAbs(net), threshold)
    /\ \A c \in emitted :
          /\ c.signal_type \in {"BUY", "SELL"}
          /\ c.signal_type = "BUY" <=> RGt(net, RZero)
          /\ c.signal_type = "SELL" <=> RLt(net, RZero)

\* C18: weighted-average emission rule: with net = SUM(weight_i * strength_i),
\* BUY positive and SELL negative, a combined signal is handed to the caller
\* if and only if |net| >= the configured threshold; it is a BUY when net > 0
\* and a SELL when net < 0; below the threshold nothing is handed back, and a
\* HOLD-typed signal never is.
C18_EmissionRule ==
    /\ Combined("weighted_average") =>
          EmissionRule(ManagerNet, request.min_confidence, result.value.delivered)
    /\ MultiCombined =>
          EmissionRule(MultiNet, request.signal_threshold, result.value.emitted)

\* C19: weighted-average output values: every combined BUY / SELL signal has
\* strength = min(|net|, 1.0) and confidence = min(2 * |net|, 1.0), and is
\* delivered to the caller with that confidence (net 0.2: confidence 0.4).
C19_OutputValues ==
    /\ Combined("weighted_average") =>
          LET c == result.value.combined
          IN  c.signal_type \in {"BUY", "SELL"} =>
                /\ c.combined_strength = RMin(RAbs(ManagerNet), RInt(1))
                /\ c.confidence = RMin(RMul(RInt(2), RAbs(ManagerNet)), RInt(1))
                /\ result.value.delivered = {c}
    /\ MultiCombined =>
          \A c \in result.value.emitted :
              c.confidence = RMin(RMul(RInt(2), RAbs(MultiNet)), RInt(1))

\* votes for a side among the signals of the call
VotesFor(types) ==
    Cardinality({n \in DOMAIN request.signals :
                    request.signals[n].signal_type \in types})

\* C20: majority vote: BUY (SELL) wins exactly when its vote count strictly
\* exceeds the count of each alternative; the winning signal's strength and
\* confidence both equal winning_votes / total_votes; on a tie neither a BUY
\* nor a SELL is produced.
C20_MajorityVote ==
    Combined("majority_vote") =>
        LET c == result.value.combined
            buy == VotesFor({"BUY"})
            sell == VotesFor({"SELL"})
            hold == VotesFor({"HOLD"})
            total == Cardinality(DOMAIN request.signals)
        IN  /\ c.signal_type = "BUY" <=> (buy > sell /\ buy > hold)
            /\ c.signal_type = "SELL" <=> (sell > buy /\ sell > hold)
            /\ c.signal_type = "BUY" =>
                  /\ c.combined_strength = Rat(buy, total)
                  /\ c.confidence = Rat(buy, total)
            /\ c.signal_type = "SELL" =>
                  /\ c.combined_strength = Rat(sell, total)
                  /\ c.confidence = Rat(sell, total)

\* SELL wins two votes to one: strength and confidence are both 2/3
C20_Witness ==
    /\ Combined("majority_vote")
    /\ VotesFor({"SELL"}) = 2
    /\ Cardinality(DOMAIN request.signals) = 3
    /\ result.value.combined = CombinedSignal("SELL", Rat(2, 3), Rat(2, 3))

\* the signal types among the signals of the call
TypesOf(signals) == {signals[n].signal_type : n \in DOMAIN signals}

C22_WeightsNormalized ==
    component \in {"MultiStrategy", "StrategyManager"} =>
        SumWeights(stored_weights, DOMAIN stored_weights) = RInt(1)

\* the call was MultiStrategy._filter_signals
Filtered == request.call = "_filter_signals"

\* the kept signals that are older than the signal
KeptBefore(signal) ==
    {k \in 1..Len(result.value) : result.value[k].timestamp < signal.timestamp}

\* the signal is one of the kept ones
Kept(signal) == \E k \in 1..Len(result.value) : result.value[k] = signal

\* same side, and less than rebalance_frequency days apart
Churn(earlier, later) ==
    /\ earlier.signal_type = later.signal_type
    /\ later.timestamp - earlier.timestamp < 24 * request.rebalance_frequency

\* C23: churn suppression: a combined signal is suppressed whenever the most
\* recent emitted combined signal had the same side and is less than
\* rebalance_frequency days older; hence no two consecutive emitted signals
\* have the same side and a gap below rebalance_frequency days.
C23_ChurnSuppression ==
    Filtered =>
        /\ \A i \in 1..Len(request.signals) :
              LET signal == request.signals[i]
                  before == KeptBefore(signal)
              IN  (/\ before # {}
                   /\ Churn(result.value[CHOOSE k \in before :
                                             \A j \in before : j <= k],
                            signal))
                  => ~Kept(signal)
        /\ \A k \in 1..(Len(result.value) - 1) :
              /\ result.value[k].timestamp < result.value[k + 1].timestamp
              /\ ~Churn(result.value[k], result.value[k + 1])

\* a confirmed BUY 36 hours after a kept BUY is dropped at a rebalance
\* frequency of 2 days, and a later one is kept
C23_Witness ==
    /\ Filtered
    /\ request.rebalance_frequency = 2
    /\ Len(request.signals) = 3
    /\ \A i \in 1..3 :
          request.signals[i].signal_type = "BUY" /\ request.signals[i].confirmed
    /\ request.signals[2].timestamp - request.signals[1].timestamp = 36
    /\ result.value = <<request.signals[1], request.signals[3]>>

\* the signals executed so far in the run, as the strategy produced them
ExecutedSignals == [k \in 1..Len(run.executed) |-> run.executed[k].requested]

\* the place of a symbol in the order of the symbols
SymbolOrder(symbol) == IF symbol = "A" THEN 1 ELSE 2

\* C24: global execution order: the pooled signals of all symbols are executed
\* in non-decreasing timestamp order, so the trade records' timestamps are
\* non-decreasing, and signals with equal timestamps are executed in symbol
\* order, whatever the order in which the symbols were passed to the run.
C24_GlobalOrder ==
    /\ \A k \in 1..(Len(ExecutedSignals) - 1) :
          /\ ExecutedSignals[k].timestamp <= ExecutedSignals[k + 1].timestamp
          /\ ExecutedSignals[k].timestamp = ExecutedSignals[k + 1].timestamp =>
                SymbolOrder(ExecutedSignals[k].symbol)
                    <= SymbolOrder(ExecutedSignals[k + 1].symbol)
    /\ \A k \in 1..(Len(run.trade_times) - 1) :
          run.trade_times[k] <= run.trade_times[k + 1]

\* the run has been reset and has executed nothing yet
JustStarted == run.phase = "executing" /\ run.executed = <<>>

\* C25: restartable, deterministic runs: two run_backtest calls on the same
\* engine with identical inputs produce identical trade sequences, final
\* capital, positions, valuations and metrics; no cash, position or trade of
\* an earlier run is visible when a later run starts.
C25_RestartableRuns ==
    /\ \A i, j \in 1..Len(reports) :
          reports[i].args = reports[j].args => reports[i].report = reports[j].report
    /\ JustStarted =>
          /\ current_capital = initial_capital
          /\ positions = Empty
          /\ trades = <<>>

\* the same run was made twice on one engine: it traded both times, spent
\* cash and left a position open
C25_Witness ==
    /\ Len(reports) = 2
    /\ reports[1].args = reports[2].args
    /\ Len(reports[2].report.trades) >= 2
    /\ RLt(reports[2].report.final_capital, initial_capital)
    /\ \E s \in DOMAIN reports[2].report.positions :
          reports[2].report.positions[s].quantity > 0

\* C26: signals are immutable to the engine: executing a signal never modifies
\* the Signal object it was given; after a downsized BUY the signal's quantity
\* still equals the requested quantity.
C26_SignalsImmutable ==
    \A k \in 1..Len(run.executed) :
        run.executed[k].signal = run.executed[k].requested

\* the symbol has no data source, has an empty frame, or its generate_signals
\* raises
FailedSymbol(args, symbol) ==
    \/ symbol \notin DOMAIN args.historical_data
    \/ args.historical_data[symbol] = EmptyFrame
    \/ args.strategy[symbol].raises

\* run_backtest has returned
RunReturned == run.phase = "done" /\ result.of = "run_backtest"

\* C27: per-symbol failures are never fatal: if a symbol has no data source,
\* empty data, or its generate_signals raises, run_backtest still returns a
\* result, that symbol contributes no signals or trades, and the signals of
\* every other symbol are still collected and executed.
C27_FailuresNotFatal ==
    RunReturned =>
        LET args == run.args
            failed == {s \in Range(args.symbols) : FailedSymbol(args, s)}
            healthy == Range(args.symbols) \ failed
        IN  /\ \A k \in 1..Len(ExecutedSignals) :
                  ExecutedSignals[k].symbol \notin failed
            /\ \A k \in 1..Len(result.value.trades) :
                  result.value.trades[k].symbol \notin failed
            /\ Range(ExecutedSignals) =
                  UNION {Range(args.strategy[s].signals) : s \in healthy}
            /\ Len(ExecutedSignals) = Cardinality(Range(ExecutedSignals))

\* the first symbol's generate_signals raised, and the second symbol's BUY was
\* executed all the same
C27_Witness ==
    /\ RunReturned
    /\ Len(run.args.symbols) = 2
    /\ run.args.symbols[1] \in DOMAIN run.args.strategy
    /\ run.args.strategy[run.args.symbols[1]].raises
    /\ Len(result.value.trades) = 1
    /\ result.value.trades[1].symbol = run.args.symbols[2]

\* the metrics the report must carry
FlatMetricKeys == {"total_return", "max_drawdown", "sharpe_ratio", "win_rate"}

\* C28: an empty signal pool gives a flat result: when no signal is produced
\* (including when no symbol yields any data), run_backtest returns a result
\* with zero trades, final capital equal to initial capital, and flat metrics
\* present in the result: total return 0, max drawdown 0, Sharpe ratio 0 and
\* win rate 0.
C28_FlatResult ==
    (RunReturned /\ run.executed = <<>>) =>
        LET report == result.value
            metrics == report.performance_metrics
        IN  /\ report.trades = <<>>
            /\ report.final_capital = report.initial_capital
            /\ FlatMetricKeys \subseteq DOMAIN metrics
            /\ \A key \in FlatMetricKeys \cap DOMAIN metrics : metrics[key] = RZero

\* the quantity of the symbol bought less the quantity sold by the first k
\* trade records dated up to the date
RECURSIVE OpenQuantity(_, _, _, _)
OpenQuantity(timed, k, symbol, date) ==
    IF k = 0 THEN 0
    ELSE OpenQuantity(timed, k - 1, symbol, date)
         + (IF timed[k].symbol = symbol /\ timed[k].timestamp <= date
            THEN IF timed[k].action = "buy" THEN timed[k].quantity
                 ELSE 0 - timed[k].quantity
            ELSE 0)

\* the symbols with an open quantity at the close of the date
OpenOn(timed, date) ==
    {symbol \in {timed[k].symbol : k \in 1..Len(timed)} :
        OpenQuantity(timed, Len(timed), symbol, date) > 0}

\* the snapshot values every open position at the close of its date
MarkedToMarket(snapshot, timed, stock_data) ==
    LET open == OpenOn(timed, snapshot.date)
    IN  /\ \A symbol \in open :
              /\ symbol \in DOMAIN stock_data
              /\ snapshot.date \in DOMAIN stock_data[symbol]
              /\ stock_data[symbol][snapshot.date] # RZero
        /\ snapshot.portfolio_value =
              RAdd(snapshot.cash,
                   SumValue([symbol \in open |->
                                OpenQuantity(timed, Len(timed), symbol,
                                             snapshot.date)],
                            stock_data, snapshot.date, open))

\* C29: daily mark-to-market: the snapshot series has exactly one entry per
\* trading day in the inclusive date range, in ascending date order, and each
\* entry's portfolio_value equals the replayed cash plus, for every symbol with
\* an open quantity on that day, quantity times that symbol's closing price of
\* that day: every open position is priced on every day.
C29_DailyMarkToMarket ==
    RunReturned =>
        LET values == result.value.portfolio_values
            days == TradingDays(run.stock_data)
        IN  /\ Len(values) = Cardinality(days)
            /\ {values[k].date : k \in 1..Len(values)} = days
            /\ \A k \in 1..(Len(values) - 1) : values[k].date < values[k + 1].date
            /\ \A k \in 1..Len(values) :
                  MarkedToMarket(values[k], result.value.trades, run.stock_data)

\* the snapshot series keeps to the trading days, and every snapshot whose open
\* positions all have a bar on its date is marked to market
PricedWhereQuoted ==
    RunReturned =>
        LET values == result.value.portfolio_values
            days == TradingDays(run.stock_data)
        IN  /\ Len(values) = Cardinality(days)
            /\ {values[k].date : k \in 1..Len(values)} = days
            /\ \A k \in 1..(Len(values) - 1) : values[k].date < values[k + 1].date
            /\ \A k \in 1..Len(values) :
                  (\A symbol \in OpenOn(result.value.trades, values[k].date) :
                      values[k].date \in DOMAIN run.stock_data[symbol])
                  => MarkedToMarket(values[k], result.value.trades, run.stock_data)

\* C30: single writer: for any sequence and interleaving of start_simulation
\* and stop_simulation calls, at most one trading-loop thread is ever alive and
\* mutating the PositionManager ledger; a start while running starts no second
\* loop, and a stop followed by a start never leaves an earlier loop running
\* alongside the new one.
C30_SingleWriter == Cardinality(Alive) <= 1

\* two trading loops are inside an iteration on the shared ledger at once
TwoWriters ==
    \E i, j \in 1..Len(threads) :
        i # j /\ threads[i] = "iteration" /\ threads[j] = "iteration"

\* with the flag cleared no thread passes from the loop test, or from its
\* sleep, into an iteration, and a thread inside an iteration stays in it or
\* finishes it
NoNewIteration ==
    ~is_running =>
        \A i \in 1..Len(threads) :
            /\ threads'[i] = "iteration" => threads[i] = "iteration"
            /\ threads[i] = "iteration" => threads'[i] \in {"iteration", "sleep"}

\* C31: cooperative stop: after stop_simulation clears the running flag, and
\* unless start_simulation sets it again, the trading loop begins no new
\* iteration, an iteration in progress runs to completion, the loop thread
\* eventually terminates, and stop_simulation itself returns.
C31_CooperativeStop ==
    /\ [][NoNewIteration]_vars
    /\ \A i \in 1..MaxThreads :
          (~is_running /\ i <= Len(threads) /\ threads[i] = "iteration")
              ~> (i <= Len(threads) /\ threads[i] = "sleep")
    /\ \A i \in 1..MaxThreads :
          (~is_running /\ i <= Len(threads))
              ~> (is_running \/ (i <= Len(threads) /\ threads[i] = "exited"))
    /\ (caller = "joining") ~> (caller = "idle")

\* the join gave up on a sleeping thread, the flag stayed cleared, and the
\* thread has ended after its sleep without another iteration
C31_Witness ==
    /\ ~is_running
    /\ caller = "idle"
    /\ outcome = "stopped, thread alive"
    /\ Len(threads) = 1
    /\ threads[1] = "exited"

\* C32: synchronized reads: a status read issued from another thread while
\* the trading loop is inside buy_stock or sell_stock never observes a ledger
\* in which the position has been updated and cash has not: the positions
\* and the cash of every returned status are those of one state between two
\* complete fills.
C32_SynchronizedReads ==
    reader.returned => reader.positions_version = reader.cash_version

\* a returned status whose total is cash plus market value of no state the
\* ledger was in between two complete fills
TornTotal ==
    /\ reader.returned
    /\ reader.positions_version = 1
    /\ reader.cash_version = 0
    /\ RGt(reader.total_value, initial_capital)

\* the last fill was accepted as asked by both ledgers
AcceptedByBoth == result.of = "fill" /\ result.value.accepted_by_both

\* C33: the two ledgers share fill semantics: for the same fill (side,
\* shares, price) accepted by both, BacktestEngine with its default rates and
\* PositionManager charge the same fees and change cash by the same amount,
\* on buys as well as on sells.
C33_SharedFillSemantics ==
    AcceptedByBoth =>
        /\ result.value.backtest_fees = result.value.manager_fees
        /\ result.value.backtest_change = result.value.manager_change

\* a sell accepted by both ledgers costs the same in both
SellsAgree ==
    (AcceptedByBoth /\ request.signal_type = "sell") =>
        /\ result.value.backtest_fees = result.value.manager_fees
        /\ result.value.backtest_change = result.value.manager_change

\* a sell was accepted by both ledgers
SellAcceptedByBoth == AcceptedByBoth /\ request.signal_type = "sell"

\* every position record of the engine is flat and zeroed, or its total cost
\* is its average price times its quantity
PositionRecordsConsistent ==
    \A symbol \in DOMAIN positions :
        LET position == positions[symbol]
        IN  /\ position.quantity >= 0
            /\ position.quantity = 0 =>
                  position.avg_price = RZero /\ position.total_cost = RZero
            /\ position.quantity > 0 =>
                  position.total_cost =
                      RMul(position.avg_price, RInt(position.quantity))

\* a sell that leaves part of the position leaves its average price alone
PartialSellKeepsAverage ==
    \A symbol \in DOMAIN positions :
        (/\ positions'[symbol].quantity < positions[symbol].quantity
         /\ positions'[symbol].quantity > 0)
        => positions'[symbol].avg_price = positions[symbol].avg_price

\* C34: position record invariant of the BacktestEngine ledger: after any
\* sequence of fills, for every symbol quantity = 0 implies avg_price = 0 and
\* total_cost = 0, quantity > 0 implies total_cost = avg_price * quantity, and
\* a partial sell leaves avg_price unchanged.
C34_PositionRecord ==
    [][PositionRecordsConsistent' /\ PartialSellKeepsAverage]_vars

\* a position bought twice at different prices and then sold in part
C34_Witness ==
    /\ component = "BacktestEngine"
    /\ Len(trades) = 3
    /\ trades[1].action = "buy" /\ trades[2].action = "buy"
    /\ trades[1].symbol = trades[3].symbol /\ trades[2].symbol = trades[3].symbol
    /\ trades[1].price # trades[2].price
    /\ trades[3].action = "sell"
    /\ positions[trades[3].symbol].quantity > 0

\* the step is a buy_stock or sell_stock call on the manager
ManagerCall == component = "PositionManager" /\ steps' = steps + 1

\* the shares of the symbol held before the call
HeldBefore(symbol) ==
    IF symbol \in DOMAIN pm_positions THEN pm_positions[symbol].shares ELSE 0

\* the fees the call charged: nothing when it returned False
FeesCharged ==
    LET call == request'
    IN  IF outcome' = "buy_stock_true"
        THEN RSub(PMTotalCost(call.shares, call.price),
                  RMul(RInt(call.shares), call.price))
        ELSE IF outcome' \in {"sell_stock_true", "sell_stock_clamped"}
        THEN LET sold == PMSellShares(call.shares, HeldBefore(call.symbol))
             IN  RSub(RMul(RInt(sold), call.price), PMNetIncome(sold, call.price))
        ELSE RZero

\* cash + SUM(position.market_value) before the call, as stored
TotalBefore == RAdd(cash, MarketValue(pm_positions))

\* the same total with the holding of the traded symbol valued at the price of
\* the call, when the call is a fill
TotalBeforeAtFillPrice ==
    LET call == request'
        filled == outcome' \in {"buy_stock_true", "sell_stock_true",
                                 "sell_stock_clamped"}
    IN  IF filled /\ call.symbol \in DOMAIN pm_positions
        THEN RAdd(RSub(TotalBefore, pm_positions[call.symbol].market_value),
                  RMul(RInt(pm_positions[call.symbol].shares), call.price))
        ELSE TotalBefore

\* cash + SUM(position.market_value) after the call
TotalAfter == RAdd(cash', MarketValue(pm_positions'))

\* C35: PositionManager total-value invariant: after every buy_stock or
\* sell_stock call, cash + SUM(position.market_value) equals the total before
\* the call less the fees charged on a successful fill, and is unchanged on a
\* rejected call; a fill changes the total value in no other way.
C35_TotalValue ==
    [][ManagerCall => TotalAfter = RSub(TotalBefore, FeesCharged)]_vars

\* C35, amended: the total after the call equals the total before it, with the
\* holding of the traded symbol revalued at the fill price, less the fees.
C35_TotalValueAtFillPrice ==
    [][ManagerCall => TotalAfter = RSub(TotalBeforeAtFillPrice, FeesCharged)]_vars

\* a second buy of a held symbol at another price has been filled
C35_Witness ==
    /\ component = "PositionManager"
    /\ outcome = "buy_stock_true"
    /\ request.shares > 0
    /\ request.symbol \in DOMAIN pm_positions
    /\ pm_positions[request.symbol].shares > request.shares
    /\ pm_positions[request.symbol].avg_cost # request.price

\* the quantity the running ledger holds of the symbol
LedgerQuantity(ledger, symbol) ==
    IF symbol \in DOMAIN ledger THEN ledger[symbol].quantity ELSE 0

\* C36: the replay agrees with the running ledger: after a run, the cash of
\* the last daily snapshot equals final_capital and the replayed quantity of
\* every symbol equals the running ledger's quantity, for every trade log the
\* engine can produce, trades dated outside the date range included.
C36_ReplayAgrees ==
    (RunReturned /\ result.value.portfolio_values # <<>>) =>
        LET report == result.value
            values == report.portfolio_values
            replayed == Replayed(report.trades, run.stock_data,
                                 report.initial_capital)
        IN  /\ values[Len(values)].cash = report.final_capital
            /\ replayed.current_cash = report.final_capital
            /\ \A symbol \in Symbols :
                  ReplayedQuantity(replayed.current_positions, symbol)
                      = LedgerQuantity(report.positions, symbol)

\* the replay agrees with the ledger whenever every trade is dated on a
\* trading day of the range
ReplayAgreesInRange ==
    (RunReturned /\ result.value.portfolio_values # <<>>
       /\ \A k \in 1..Len(result.value.trades) :
             result.value.trades[k].timestamp \in TradingDays(run.stock_data))
    => C36_ReplayAgrees

\* the sum of profit_loss over the sell records among the first k records
RECURSIVE SumProfitLoss(_, _)
SumProfitLoss(trade_log, k) ==
    IF k = 0 THEN RZero
    ELSE RAdd(SumProfitLoss(trade_log, k - 1),
              IF trade_log[k].action = "sell" THEN trade_log[k].profit_loss
              ELSE RZero)

\* the sum of commission over the buy records among the first k records
RECURSIVE SumBuyCommission(_, _)
SumBuyCommission(trade_log, k) ==
    IF k = 0 THEN RZero
    ELSE RAdd(SumBuyCommission(trade_log, k - 1),
              IF trade_log[k].action = "buy" THEN trade_log[k].commission
              ELSE RZero)

\* every position of the engine is flat
AllFlat == \A symbol \in DOMAIN positions : positions[symbol].quantity = 0

\* C37: realized-P&L accounting identity: whenever every position of the
\* BacktestEngine ledger is flat, current_capital - initial_capital equals the
\* sum of profit_loss over all sell records minus the sum of commission over
\* all buy records, for any preceding sequence of buys, partial sells and
\* re-buys.
C37_RealizedPnl ==
    (component = "BacktestEngine" /\ AllFlat) =>
        RSub(current_capital, initial_capital)
            = RSub(SumProfitLoss(trades, Len(trades)),
                   SumBuyCommission(trades, Len(trades)))

\* a position was bought, sold in part and then sold out
C37_Witness ==
    /\ component = "BacktestEngine"
    /\ AllFlat
    /\ Len(trades) = 3
    /\ trades[1].action = "buy"
    /\ trades[2].action = "sell" /\ trades[2].quantity < trades[1].quantity
    /\ trades[3].action = "sell" /\ trades[3].symbol = trades[1].symbol
    /\ trades[3].price # trades[1].price

\* C38: every trade record appended by BacktestEngine has quantity > 0: a BUY
\* signal with quantity 0 and a SELL signal with quantity 0 never append a
\* trade record and leave cash unchanged, whether or not the symbol is held.
C38_NoEmptyTrades ==
    component = "BacktestEngine" =>
        \A k \in 1..Len(trades) : trades[k].quantity > 0

\* a signal of quantity 0 never changes the cash of the engine
ZeroQuantityKeepsCash ==
    [][(component = "BacktestEngine" /\ steps' = steps + 1
          /\ request'.quantity = 0)
       => current_capital' = current_capital]_vars

\* a SELL signal of quantity 0 appends no trade record
ZeroSellAppendsNothing ==
    [][(component = "BacktestEngine" /\ steps' = steps + 1
          /\ request'.quantity = 0 /\ request'.signal_type = "sell")
       => trades' = trades]_vars

\* confidences a caller may hand to calculate_position_size: nothing clamps
\* the argument, so 0 and a value above 1 / max_position_pct are among them
AnyConfidence == QueryStrengths \cup {RZero, RInt(5)}

\* the sized order for (symbol, strength, price) in the current ledger state
\* costs no more than the cash outside the reserve
SizedOrderFits(symbol, strength, price) ==
    LET n == calculate_position_size(symbol, strength, price)
        total_cost == PMTotalCost(n, price)
    IN  /\ n >= 0
        /\ RLe(total_cost, RMul(cash, RSub(RInt(1), cash_reserve)))
        /\ ~PMCashShort(total_cost, cash)
        /\ RGe(RSub(cash, total_cost), RMul(cash_reserve, cash))

\* a sized buy that was placed was filled and left the reserve in cash
SizedBuyFilled ==
    (Sized /\ result'.value > 0) =>
        /\ request'.call = "buy_stock"
        /\ request'.shares = result'.value
        /\ outcome' = "buy_stock_true"
        /\ cash' = RSub(cash, PMTotalCost(result'.value, request'.price))
        /\ RGe(cash', RMul(cash_reserve, cash))

\* C39: a sized buy always fits: for any ledger state, confidence and
\* positive price, the share count n returned by calculate_position_size
\* satisfies n * price * (1 + transaction_cost) <= cash * (1 - cash_reserve),
\* so the buy_stock(symbol, n, price) that follows at the same price succeeds
\* and leaves at least cash_reserve * (cash before) in cash.
C39_SizedBuyFits ==
    /\ [](component = "PositionManager" =>
            \A symbol \in Symbols, strength \in AnyConfidence, price \in Prices :
                SizedOrderFits(symbol, strength, price))
    /\ [][SizedBuyFilled]_vars

\* a sized buy was placed and filled, and the ledger already held the other
\* symbol when it was sized
C39_Witness ==
    /\ result.of = "calculate_position_size"
    /\ result.value > 0
    /\ request.call = "buy_stock"
    /\ request.shares = result.value
    /\ outcome = "buy_stock_true"
    /\ Cardinality(DOMAIN pm_positions) = 2
    /\ RGt(cash, RZero)

\* the action asks to sell a position at a loss (the stop-loss branch)
IsStopLoss(a, prices) == RLt(prices[a[1]], pm_positions[a[1]].avg_cost)

\* a list of risk actions can be executed on the current ledger: every action
\* sells between 1 and all shares of a held symbol, no symbol has two actions,
\* and an action that takes profit leaves at least one share
Executable(actions, prices) ==
    /\ \A a \in actions :
          /\ a[2] = "sell"
          /\ a[1] \in DOMAIN pm_positions
          /\ a[1] \in DOMAIN prices
          /\ 0 < a[3]
          /\ a[3] <= pm_positions[a[1]].shares
          /\ IF IsStopLoss(a, prices)
             THEN a[3] = pm_positions[a[1]].shares
             ELSE pm_positions[a[1]].shares - a[3] >= 1
    /\ \A s \in Symbols : Cardinality({a \in actions : a[1] = s}) <= 1

\* one iteration of the loop of _risk_control: the sell is accepted as asked;
\* a stop-loss closes the position, a take-profit keeps it open
RiskSellStep ==
    \A a \in risk_actions :
        (steps' = steps + 1 /\ risk_actions' = risk_actions \ {a}) =>
            /\ outcome' = "sell_stock_true"
            /\ request'.shares = a[3]
            /\ IF IsStopLoss(a, current_prices)
               THEN a[1] \notin DOMAIN pm_positions'
               ELSE /\ a[1] \in DOMAIN pm_positions'
                    /\ pm_positions'[a[1]].shares >= 1
                    /\ pm_positions'[a[1]].shares
                          = pm_positions[a[1]].shares - a[3]

StopLossClosed ==
    /\ request.call = "sell_stock"
    /\ outcome = "sell_stock_true"
    /\ request.symbol \in DOMAIN current_prices
    /\ request.price = current_prices[request.symbol]
    /\ request.symbol \notin DOMAIN pm_positions
    /\ request.shares % 100 # 0
====
